---- MODULE Spec2Model ----
(***************************************************************************)
(* A model of the timetable optimisation core of ClassSync AI              *)
(* (src/classsync_core/scheduler and src/classsync_core/utils.py):         *)
(* time arithmetic, genes and chromosomes, the pre-GA validator, the       *)
(* population initializer, the fitness evaluator, the genetic operators,   *)
(* the repair mechanism and the GA engine.                                 *)
(*                                                                         *)
(* Representation.                                                         *)
(*  - An "HH:MM" string is the pair <<h, m>>; parsing it gives h*60+m and   *)
(*    formatting minutes gives <<(min \div 60) % 24, min % 60>>, as the    *)
(*    code does, so an end time past midnight wraps.                       *)
(*  - None is NoTime for a time, "None" for a day or a lock type, NoRoom   *)
(*    for a room id, NoFitness for a fitness.                              *)
(*  - A fitness is kept in thousandths, each score rounded down, because  *)
(*    the code computes it in floating point.                              *)
(*  - Every random draw of the code is a nondeterministic choice over the  *)
(*    values the draw can return.                                          *)
(***************************************************************************)
EXTENDS Integers, Sequences, FiniteSets, TLC

VARIABLES
    pc,                     \* position of the modelled run
    sessions,               \* sessions_df: the sessions to schedule (input)
    locked_assignments,     \* locked assignments (input)
    teacher_constraints,    \* teacher constraints (input)
    max_gens,               \* generations argument of GAEngine.run (input)
    min_fit,                \* config.min_acceptable_fitness (input, thousandths)
    population,             \* GAEngine.run: population
    new_population,         \* GAEngine._create_next_generation: new_population
    best_chromosome,        \* GAEngine.run: best_chromosome
    best_fitness,           \* GAEngine.run: best_fitness
    stagnant_generations,   \* GAEngine.run: stagnant_generations
    generation,             \* GAEngine.run: generation (loop variable)
    best_fitness_history,   \* GAEngine.best_fitness_history
    validation,             \* PreGAValidator.validate(): the ValidationResult
    rooms_df,               \* rooms_df: the room catalogue (input)
    random_seed,            \* GAEngine.random_seed (input)
    rng,                    \* the state of the generator of the random module
    initializer_rooms,      \* PopulationInitializer: lab_rooms and theory_rooms
    run_results,            \* what the runs made so far have returned
    heap,                   \* the Gene objects and the lists of them, by identity
    frame                   \* GAEngine._create_next_generation: parents and children

vars == <<pc, sessions, locked_assignments, teacher_constraints, max_gens, min_fit,
          population, new_population, best_chromosome, best_fitness,
          stagnant_generations, generation, best_fitness_history, validation,
          rooms_df, heap, frame, random_seed, rng, initializer_rooms, run_results, heap, frame>>

-----------------------------------------------------------------------------
(* Small helpers over sequences and sets.                                  *)

Range(s) == {s[i] : i \in DOMAIN s}

Max2(a, b) == IF a >= b THEN a ELSE b

Min2(a, b) == IF a <= b THEN a ELSE b

RECURSIVE SumSeq(_)
SumSeq(s) == IF s = <<>> THEN 0 ELSE s[1] + SumSeq(Tail(s))

RECURSIVE ISqrtFrom(_, _, _)
\* floor of the square root of x, by bisection on lo..hi
ISqrtFrom(x, lo, hi) ==
    IF lo >= hi THEN lo
    ELSE LET mid == (lo + hi + 1) \div 2
         IN IF mid * mid <= x THEN ISqrtFrom(x, mid, hi) ELSE ISqrtFrom(x, lo, mid - 1)

ISqrt(x) == ISqrtFrom(x, 0, x)

-----------------------------------------------------------------------------
(* Time arithmetic: src/classsync_core/utils.py                            *)

NoTime == <<-1, -1>>

\* parse_time + time_to_minutes: "HH:MM" -> minutes since midnight
time_to_minutes(t) == t[1] * 60 + t[2]

\* minutes_to_time: the hour wraps modulo 24
minutes_to_time(minutes) == <<(minutes \div 60) % 24, minutes % 60>>

\* calculate_slot_end_time: start + duration, formatted back as "HH:MM"
calculate_slot_end_time(start_time, duration_minutes) ==
    minutes_to_time(time_to_minutes(start_time) + duration_minutes)

\* an overlap test that takes two ranges that only touch as overlapping
slots_overlap_closed(start1, end1, start2, end2) ==
    ~(time_to_minutes(end1) < time_to_minutes(start2)
      \/ time_to_minutes(end2) < time_to_minutes(start1))

\* slots_overlap: not (e1 <= s2 or e2 <= s1), in minutes since midnight
slots_overlap(start1, end1, start2, end2) ==
    ~(time_to_minutes(end1) <= time_to_minutes(start2)
      \/ time_to_minutes(end2) <= time_to_minutes(start1))

-----------------------------------------------------------------------------
(* Configuration: src/classsync_core/scheduler/config.py (GAConfig).        *)
(* The run is modelled under a reduced configuration: two working days,     *)
(* two allowed start times, a day that ends at 12:00, so that a 180 minute *)
(* session starting at 09:30 does not fit, and one blocked window, Monday  *)
(* 10:30-12:00, which a 90 minute session starting at 09:30 runs into.     *)

working_days == <<"Monday", "Tuesday">>

allowed_start_times == << <<8, 0>>, <<9, 30>> >>

allowed_durations == {90, 120, 180}

day_start_time == <<8, 0>>

day_end_time == <<12, 0>>

\* blocked_windows: day -> list of (start, end)
blocked_windows(day) ==
    IF day = "Monday" THEN << << <<10, 30>>, <<12, 0>> >> >> ELSE <<>>

early_class_threshold == <<9, 30>>

late_class_threshold == <<15, 30>>

max_acceptable_gap_minutes == 90

elitism_rate_percent == 5

tournament_size == 5

max_repair_attempts == 2

max_stagnant_generations == 2

weight_even_distribution == 140

weight_minimize_gaps_students == 120

weight_compact_schedule == 110

weight_minimize_gaps_teachers == 100

weight_room_type_match == 80

weight_minimize_early_classes == 60

weight_minimize_late_classes == 60

weight_minimize_building_changes == 40

weight_room_utilization == 30

is_valid_start_time(time_str) == time_str \in Range(allowed_start_times)

is_valid_duration(duration_minutes) == duration_minutes \in allowed_durations

is_blocked(day, start_time, end_time) ==
    \E i \in DOMAIN blocked_windows(day) :
        slots_overlap(start_time, end_time,
                      blocked_windows(day)[i][1], blocked_windows(day)[i][2])

-----------------------------------------------------------------------------
(* The room catalogue (rooms_df) and the session catalogues (sessions_df). *)

NoRoom == 0

\* the catalogue of the runs that are made without a seed
RoomCatalogue ==
    << [Room_ID |-> 1, Room_Code |-> "SB 001", Room_Type |-> "Theory"],
       [Room_ID |-> 2, Room_Code |-> "AB Lab1", Room_Type |-> "Lab"] >>

Rooms == rooms_df

RoomIds == {Rooms[i].Room_ID : i \in DOMAIN Rooms}

\* rooms_df['Room_Type'].str.lower().str.contains('lab')
IsLabRoom(room_id) ==
    \E i \in DOMAIN Rooms : Rooms[i].Room_ID = room_id /\ Rooms[i].Room_Type = "Lab"

lab_rooms == {r \in RoomIds : IsLabRoom(r)}

theory_rooms == {r \in RoomIds : ~IsLabRoom(r)}

all_rooms == RoomIds

\* room.split()[0]: the building is the first token of the room code
room_buildings(room_id) ==
    IF room_id = 1 THEN "SB" ELSE IF room_id \in {2, 3} THEN "AB" ELSE ""

Session(key, n, teacher, section, duration, lab) ==
    [Session_Key |-> key, Session_Number |-> n, Teacher_ID |-> teacher,
     Section_ID |-> section, Duration_Minutes |-> duration, Is_Lab |-> lab]

\* two theory sessions of one teacher, in different sections
SessionsTheory ==
    << Session("S1", 1, 1, 1, 90, FALSE), Session("S2", 2, 1, 2, 90, FALSE) >>

\* a theory session and a lab of another teacher for the same section
SessionsLab ==
    << Session("S1", 1, 1, 1, 90, FALSE), Session("S3", 3, 2, 1, 180, TRUE) >>

\* two theory sessions that share neither teacher nor section
SessionsRoom ==
    << Session("S1", 1, 1, 1, 90, FALSE), Session("S4", 4, 2, 2, 90, FALSE) >>

\* one theory session and a lab session that is given with 120 minutes
SessionsShortLab ==
    << Session("S1", 1, 1, 1, 90, FALSE), Session("S5", 5, 2, 2, 120, TRUE) >>

-----------------------------------------------------------------------------
(* Genes and chromosomes: src/classsync_core/scheduler/chromosome.py       *)
(* A gene keeps the fields the core reads; room_code is determined by      *)
(* room_id through the room catalogue and is not kept apart.               *)

NoFitness == -1

\* Gene(...) with __post_init__: end_time is derived when start_time is set
Gene(session, day, start_time, room_id, is_locked, lock_type, locked_room_id) ==
    [session_key |-> session.Session_Key,
     session_number |-> session.Session_Number,
     teacher_id |-> session.Teacher_ID,
     section_id |-> session.Section_ID,
     duration_minutes |-> session.Duration_Minutes,
     is_lab |-> session.Is_Lab,
     day |-> day,
     start_time |-> start_time,
     room_id |-> room_id,
     end_time |-> IF start_time # NoTime
                  THEN calculate_slot_end_time(start_time, session.Duration_Minutes)
                  ELSE NoTime,
     is_locked |-> is_locked,
     lock_type |-> lock_type,
     locked_day |-> IF is_locked THEN day ELSE "None",
     locked_start_time |-> IF is_locked THEN start_time ELSE NoTime,
     locked_room_id |-> locked_room_id]

\* Gene.update_time
update_time(gene, day, start_time) ==
    [gene EXCEPT !.day = day, !.start_time = start_time,
                 !.end_time = calculate_slot_end_time(start_time, gene.duration_minutes)]

\* Gene.update_room
update_room(gene, room_id) == [gene EXCEPT !.room_id = room_id]

\* Gene.restore_lock
restore_lock(gene) ==
    IF ~gene.is_locked THEN gene
    ELSE [gene EXCEPT
            !.day = gene.locked_day,
            !.start_time = gene.locked_start_time,
            !.end_time = calculate_slot_end_time(gene.locked_start_time,
                                                 gene.duration_minutes),
            !.room_id = IF gene.lock_type = "full_lock" /\ gene.locked_room_id # NoRoom
                        THEN gene.locked_room_id ELSE gene.room_id]

HardCategories ==
    {"teacher_overlap", "room_overlap", "section_overlap", "invalid_time_slots",
     "invalid_durations", "blocked_windows", "lab_contiguity", "missing_assignments",
     "teacher_blocked_slots", "teacher_day_offs", "lock_violations"}

SoftCategories ==
    {"even_distribution", "minimize_student_gaps", "minimize_teacher_gaps",
     "minimize_early_classes", "minimize_late_classes", "room_type_match",
     "minimize_building_changes", "compact_schedule", "room_utilization"}

\* an empty dict: {} for hard_violations and soft_scores
EmptyDict == [c \in {} |-> 0]

\* Chromosome.__init__
Chromosome(genes) ==
    [genes |-> genes, fitness |-> NoFitness, is_feasible |-> FALSE,
     hard_violations |-> EmptyDict, soft_scores |-> EmptyDict,
     conflict_details |-> <<>>]

\* Chromosome.copy: genes, fitness and is_feasible are carried over,
\* hard_violations, soft_scores and conflict_details are not
copy(chromosome) ==
    [genes |-> [i \in DOMAIN chromosome.genes |->
                  LET g == chromosome.genes[i]
                  IN [g EXCEPT !.end_time =
                        IF g.start_time # NoTime
                        THEN calculate_slot_end_time(g.start_time, g.duration_minutes)
                        ELSE NoTime]],
     fitness |-> chromosome.fitness,
     is_feasible |-> chromosome.is_feasible,
     hard_violations |-> EmptyDict, soft_scores |-> EmptyDict,
     conflict_details |-> <<>>]

\* "c.fitness or 0"
FitnessOr0(chromosome) ==
    IF chromosome.fitness = NoFitness THEN 0 ELSE chromosome.fitness

-----------------------------------------------------------------------------
(* Fitness evaluator: src/classsync_core/scheduler/fitness_evaluator.py    *)
(* A teacher constraint is a record [teacher_id, constraint_type, is_hard, *)
(* day, days, start_time, end_time].                                       *)

\* the number of indexes of genes that satisfy Test
CountGenes(genes, Test(_)) == Cardinality({i \in DOMAIN genes : Test(genes[i])})

ResourceOf(gene, resource_type) ==
    IF resource_type = "teacher" THEN gene.teacher_id
    ELSE IF resource_type = "room" THEN gene.room_id
    ELSE gene.section_id

\* the pairs the schedule index {resource: {day: [gene]}} puts side by side
\* and slots_overlap finds overlapping
OverlapPairs(genes, resource_type) ==
    {p \in (DOMAIN genes) \X (DOMAIN genes) :
        /\ p[1] < p[2]
        /\ ResourceOf(genes[p[1]], resource_type) = ResourceOf(genes[p[2]], resource_type)
        /\ genes[p[1]].day = genes[p[2]].day
        /\ slots_overlap(genes[p[1]].start_time, genes[p[1]].end_time,
                         genes[p[2]].start_time, genes[p[2]].end_time)}

\* an overlap check that misses two sessions that start together
check_resource_overlaps_staggered(genes, resource_type) ==
    Cardinality({p \in OverlapPairs(genes, resource_type) :
                    genes[p[1]].start_time # genes[p[2]].start_time})

\* FitnessEvaluator._check_resource_overlaps
check_resource_overlaps(genes, resource_type) ==
    Cardinality(OverlapPairs(genes, resource_type))

\* FitnessEvaluator._check_lab_contiguity
check_lab_contiguity(genes) ==
    CountGenes(genes, LAMBDA g : g.is_lab /\ g.duration_minutes # 180)

\* FitnessEvaluator._check_teacher_blocked_slots: hard blocked slots only
check_teacher_blocked_slots(genes, tcs) ==
    Cardinality({p \in (DOMAIN genes) \X (DOMAIN tcs) :
        /\ tcs[p[2]].constraint_type = "blocked_slot"
        /\ tcs[p[2]].teacher_id = genes[p[1]].teacher_id
        /\ tcs[p[2]].is_hard
        /\ genes[p[1]].day = tcs[p[2]].day
        /\ slots_overlap(genes[p[1]].start_time, genes[p[1]].end_time,
                         tcs[p[2]].start_time, tcs[p[2]].end_time)})

\* FitnessEvaluator._check_teacher_day_offs: hard day-offs only
check_teacher_day_offs(genes, tcs) ==
    SumSeq([c \in DOMAIN tcs |->
        IF tcs[c].constraint_type = "day_off" /\ tcs[c].is_hard
        THEN SumSeq([d \in DOMAIN tcs[c].days |->
                CountGenes(genes, LAMBDA g :
                    g.teacher_id = tcs[c].teacher_id /\ g.day = tcs[c].days[d])])
        ELSE 0])

\* FitnessEvaluator._check_lock_violations
check_lock_violations(genes) ==
    CountGenes(genes, LAMBDA g :
        g.is_locked /\ (g.day # g.locked_day \/ g.start_time # g.locked_start_time))
    + CountGenes(genes, LAMBDA g :
        /\ g.is_locked /\ g.lock_type = "full_lock" /\ g.locked_room_id # NoRoom
        /\ g.room_id # g.locked_room_id)

ZeroViolations == [c \in HardCategories |-> 0]

\* FitnessEvaluator._check_hard_constraints
check_hard_constraints(genes, tcs) ==
    LET missing == CountGenes(genes, LAMBDA g :
                        g.day = "None" \/ g.start_time = NoTime \/ g.room_id = NoRoom)
    IN IF missing > 0
       THEN [ZeroViolations EXCEPT !["missing_assignments"] = missing]
       ELSE [ZeroViolations EXCEPT
               !["invalid_time_slots"] =
                   CountGenes(genes, LAMBDA g : ~is_valid_start_time(g.start_time))
                   + CountGenes(genes, LAMBDA g :
                         time_to_minutes(g.end_time) > time_to_minutes(day_end_time)),
               !["invalid_durations"] =
                   CountGenes(genes, LAMBDA g : ~is_valid_duration(g.duration_minutes)),
               !["blocked_windows"] =
                   CountGenes(genes, LAMBDA g : is_blocked(g.day, g.start_time, g.end_time)),
               !["teacher_overlap"] = check_resource_overlaps(genes, "teacher"),
               !["room_overlap"] = check_resource_overlaps(genes, "room"),
               !["section_overlap"] = check_resource_overlaps(genes, "section"),
               !["lab_contiguity"] = check_lab_contiguity(genes),
               !["teacher_blocked_slots"] = check_teacher_blocked_slots(genes, tcs),
               !["teacher_day_offs"] = check_teacher_day_offs(genes, tcs),
               !["lock_violations"] = check_lock_violations(genes)]

RECURSIVE Flatten(_)
\* the concatenation of a sequence of sequences
Flatten(ss) == IF ss = <<>> THEN <<>> ELSE Head(ss) \o Flatten(Tail(ss))

\* the hard categories in the order _check_hard_constraints looks at them
\* once no assignment is missing
CheckedCategories ==
    <<"invalid_time_slots", "invalid_durations", "blocked_windows",
      "teacher_overlap", "room_overlap", "section_overlap", "lab_contiguity",
      "teacher_blocked_slots", "teacher_day_offs", "lock_violations">>

\* what a call of _check_hard_constraints appends to chromosome.conflict_details:
\* one message for each violation it counts, and a single message when
\* assignments are missing.  A message is kept as the category it reports,
\* the messages of a category together.
conflict_messages(hard_violations) ==
    IF hard_violations["missing_assignments"] > 0 THEN <<"missing_assignments">>
    ELSE Flatten([k \in DOMAIN CheckedCategories |->
                    [n \in 1..hard_violations[CheckedCategories[k]] |->
                        CheckedCategories[k]]])

\* the values a field takes over the genes
Values(genes, Field(_)) == {Field(genes[i]) : i \in DOMAIN genes}

\* 1000 * max(0, 1 - std_dev / avg) for the counts of a partition of total
\* items into groups: std_dev / avg = sqrt(k * sum(c^2) - total^2) / total
BalanceScore(counts) ==
    LET k == Len(counts)
        total == SumSeq(counts)
        squares == SumSeq([i \in DOMAIN counts |-> counts[i] * counts[i]])
    IN IF k = 0 \/ total = 0 THEN 0
       ELSE Max2(0, 1000 - (ISqrt((k * squares - total * total) * 1000000) \div total))

\* a set of values as a sequence in some fixed order
RECURSIVE SetToSeq(_)
SetToSeq(S) ==
    IF S = {} THEN <<>>
    ELSE LET x == CHOOSE y \in S : TRUE IN <<x>> \o SetToSeq(S \ {x})

\* FitnessEvaluator._score_even_distribution
score_even_distribution(genes) ==
    LET days == SetToSeq(Values(genes, LAMBDA g : g.day))
    IN weight_even_distribution
       * BalanceScore([i \in DOMAIN days |-> CountGenes(genes, LAMBDA g : g.day = days[i])])

\* sorted(genes, key=start time): a stable insertion sort
RECURSIVE SortByStart(_)
SortByStart(genes) ==
    IF genes = <<>> THEN <<>>
    ELSE LET rest == SortByStart(SubSeq(genes, 1, Len(genes) - 1))
             g == genes[Len(genes)]
             before == SelectSeq(rest, LAMBDA x :
                           time_to_minutes(x.start_time) <= time_to_minutes(g.start_time))
             after == SelectSeq(rest, LAMBDA x :
                           time_to_minutes(x.start_time) > time_to_minutes(g.start_time))
         IN before \o <<g>> \o after

\* the minutes by which the gaps between consecutive genes exceed the threshold
GapExcess(sorted) ==
    SumSeq([i \in 1..(Len(sorted) - 1) |->
        LET gap == time_to_minutes(sorted[i + 1].start_time)
                   - time_to_minutes(sorted[i].end_time)
        IN IF gap > max_acceptable_gap_minutes
           THEN gap - max_acceptable_gap_minutes ELSE 0])

\* FitnessEvaluator._score_minimize_gaps
score_minimize_gaps(genes, resource_type) ==
    LET resources == SetToSeq(Values(genes, LAMBDA g : ResourceOf(g, resource_type)))
        days == SetToSeq(Values(genes, LAMBDA g : g.day))
        excess == SumSeq([r \in DOMAIN resources |-> SumSeq([d \in DOMAIN days |->
                     GapExcess(SortByStart(SelectSeq(genes, LAMBDA g :
                         ResourceOf(g, resource_type) = resources[r]
                         /\ g.day = days[d])))])])
        weight == IF resource_type = "section" THEN weight_minimize_gaps_students
                  ELSE weight_minimize_gaps_teachers
    IN IF Len(resources) = 0 THEN 0
       \* penalty = excess / 60 hours, averaged per resource, normalised by 3
       ELSE weight * (1000 - Min2((excess * 1000) \div (60 * 3 * Len(resources)), 1000))

\* FitnessEvaluator._score_time_preference
score_time_preference(genes, preference_type) ==
    LET violation_count ==
            IF preference_type = "early"
            THEN CountGenes(genes, LAMBDA g :
                     time_to_minutes(g.start_time) < time_to_minutes(early_class_threshold))
            ELSE CountGenes(genes, LAMBDA g :
                     time_to_minutes(g.start_time) >= time_to_minutes(late_class_threshold))
        weight == IF preference_type = "early" THEN weight_minimize_early_classes
                  ELSE weight_minimize_late_classes
    IN IF Len(genes) = 0 THEN 0
       ELSE weight * (1000 - ((violation_count * 1000) \div Len(genes)))

\* FitnessEvaluator._score_room_type_match
score_room_type_match(genes) ==
    LET known == SelectSeq(genes, LAMBDA g : g.room_id \in RoomIds)
        matches == CountGenes(known, LAMBDA g : g.is_lab = IsLabRoom(g.room_id))
    IN IF Len(known) = 0 THEN 0
       ELSE weight_room_type_match * ((matches * 1000) \div Len(known))

\* the building changes between consecutive genes
BuildingChanges(sorted) ==
    Cardinality({i \in 1..(Len(sorted) - 1) :
        room_buildings(sorted[i].room_id) # room_buildings(sorted[i + 1].room_id)})

\* FitnessEvaluator._score_building_changes
score_building_changes(genes) ==
    LET sections == SetToSeq(Values(genes, LAMBDA g : g.section_id))
        days == SetToSeq(Values(genes, LAMBDA g : g.day))
        total_changes == SumSeq([s \in DOMAIN sections |-> SumSeq([d \in DOMAIN days |->
                     BuildingChanges(SortByStart(SelectSeq(genes, LAMBDA g :
                         g.section_id = sections[s] /\ g.day = days[d])))])])
    IN IF Len(sections) = 0 THEN 0
       ELSE weight_minimize_building_changes
            * (1000 - Min2((total_changes * 1000) \div (15 * Len(sections)), 1000))

\* the (section, day) pairs that hold a gene
SectionDays(genes) == {<<genes[i].section_id, genes[i].day>> : i \in DOMAIN genes}

\* the span of the genes of a section on a day: latest end - earliest start
Span(genes, sd) ==
    LET mine == {i \in DOMAIN genes : genes[i].section_id = sd[1] /\ genes[i].day = sd[2]}
        earliest == CHOOSE s \in {time_to_minutes(genes[i].start_time) : i \in mine} :
                        \A i \in mine : s <= time_to_minutes(genes[i].start_time)
        latest == CHOOSE e \in {time_to_minutes(genes[i].end_time) : i \in mine} :
                        \A i \in mine : e >= time_to_minutes(genes[i].end_time)
    IN latest - earliest

\* FitnessEvaluator._score_compactness: ideal span 180, worst 600
score_compactness(genes) ==
    LET sds == SetToSeq(SectionDays(genes))
        total_span == SumSeq([i \in DOMAIN sds |-> Span(genes, sds[i])])
        n == Len(sds)
    IN IF n = 0 THEN 0
       ELSE IF total_span <= 180 * n THEN weight_compact_schedule * 1000
       ELSE weight_compact_schedule
            * Max2(0, 1000 - (((total_span - 180 * n) * 1000) \div ((600 - 180) * n)))

\* FitnessEvaluator._score_room_utilization
score_room_utilization(genes) ==
    LET rooms == SetToSeq(Values(genes, LAMBDA g : g.room_id))
    IN weight_room_utilization
       * BalanceScore([i \in DOMAIN rooms |->
                          CountGenes(genes, LAMBDA g : g.room_id = rooms[i])])

\* FitnessEvaluator._calculate_soft_scores
calculate_soft_scores(genes) ==
    [c \in SoftCategories |->
        CASE c = "even_distribution" -> score_even_distribution(genes)
          [] c = "minimize_student_gaps" -> score_minimize_gaps(genes, "section")
          [] c = "minimize_teacher_gaps" -> score_minimize_gaps(genes, "teacher")
          [] c = "minimize_early_classes" -> score_time_preference(genes, "early")
          [] c = "minimize_late_classes" -> score_time_preference(genes, "late")
          [] c = "room_type_match" -> score_room_type_match(genes)
          [] c = "minimize_building_changes" -> score_building_changes(genes)
          [] c = "compact_schedule" -> score_compactness(genes)
          [] c = "room_utilization" -> score_room_utilization(genes)]

\* sum(d.values()) for a dict d
RECURSIVE SumDict(_)
SumDict(d) ==
    IF DOMAIN d = {} THEN 0
    ELSE LET k == CHOOSE x \in DOMAIN d : TRUE
         IN d[k] + SumDict([x \in (DOMAIN d) \ {k} |-> d[x]])

\* an evaluation that scores an infeasible chromosome like a feasible one
evaluate_scored(chromosome, tcs) ==
    LET hard_violations == check_hard_constraints(chromosome.genes, tcs)
        soft_scores == calculate_soft_scores(chromosome.genes)
    IN [chromosome EXCEPT !.hard_violations = hard_violations,
                          !.is_feasible = \A c \in DOMAIN hard_violations :
                                              hard_violations[c] = 0,
                          !.soft_scores = soft_scores,
                          !.fitness = SumDict(soft_scores)]

\* FitnessEvaluator.evaluate: the chromosome after the call
evaluate(chromosome, tcs) ==
    LET hard_violations == check_hard_constraints(chromosome.genes, tcs)
        is_feasible == \A c \in DOMAIN hard_violations : hard_violations[c] = 0
        conflict_details == chromosome.conflict_details
                             \o conflict_messages(hard_violations)
    IN IF ~is_feasible
       THEN [chromosome EXCEPT !.hard_violations = hard_violations,
                               !.conflict_details = conflict_details,
                               !.is_feasible = FALSE, !.fitness = 0]
       ELSE LET soft_scores == calculate_soft_scores(chromosome.genes)
            IN [chromosome EXCEPT !.hard_violations = hard_violations,
                                  !.conflict_details = conflict_details,
                                  !.is_feasible = TRUE,
                                  !.soft_scores = soft_scores,
                                  !.fitness = SumDict(soft_scores)]

-----------------------------------------------------------------------------
(* Pre-GA validator: src/classsync_core/scheduler/validator.py             *)
(* A locked assignment is a record [session_key, day, start_time, room_id, *)
(* lock_type]; room_id = NoRoom when the lock names no room.  An error is  *)
(* a record [error_type, severity, keys]: keys are the session keys its    *)
(* details name.  The runs modelled give no room constraints, so check 8   *)
(* (_validate_locked_vs_room_constraints) finds nothing and is left out.   *)

max_teacher_weekly_hours == 40

ValidationError(error_type, severity, keys) ==
    [error_type |-> error_type, severity |-> severity, keys |-> keys]

\* ValidationResult(is_valid=True)
NewValidationResult == [is_valid |-> TRUE, errors |-> <<>>, warnings |-> <<>>]

\* an add_error that records the error and leaves is_valid as it is
add_error_recorded(result, error) ==
    IF error.severity = "hard"
    THEN [result EXCEPT !.errors = Append(result.errors, error)]
    ELSE [result EXCEPT !.warnings = Append(result.warnings, error)]

\* ValidationResult.add_error
add_error(result, error) ==
    IF error.severity = "hard"
    THEN [result EXCEPT !.errors = Append(result.errors, error), !.is_valid = FALSE]
    ELSE [result EXCEPT !.warnings = Append(result.warnings, error)]

RECURSIVE add_errors(_, _)
\* add_error for each error of a sequence, in order
add_errors(result, errors) ==
    IF errors = <<>> THEN result
    ELSE add_errors(add_error(result, Head(errors)), Tail(errors))

\* session_lookup: the last session with the key
session_lookup(sess, session_key) ==
    LET found == {i \in DOMAIN sess : sess[i].Session_Key = session_key}
    IN sess[CHOOSE i \in found : \A j \in found : j <= i]

HasSession(sess, session_key) ==
    \E i \in DOMAIN sess : sess[i].Session_Key = session_key

\* the locks that name an existing session, each with the teacher, section and
\* end time the validator derives for it
KnownLocks(sess, locks) ==
    LET known == SelectSeq(locks, LAMBDA l : HasSession(sess, l.session_key))
    IN [i \in DOMAIN known |->
          LET session == session_lookup(sess, known[i].session_key)
          IN [session_key |-> known[i].session_key,
              teacher_id |-> session.Teacher_ID,
              duration |-> session.Duration_Minutes,
              day |-> known[i].day,
              start_time |-> known[i].start_time,
              end_time |-> calculate_slot_end_time(known[i].start_time,
                                                   session.Duration_Minutes),
              room_id |-> known[i].room_id]]

\* the pairs i < j of a lock list that are on one day and overlap
OverlappingLockPairs(locks, Same(_, _)) ==
    Flatten([i \in DOMAIN locks |-> Flatten([j \in DOMAIN locks |->
        IF /\ i < j
           /\ Same(locks[i], locks[j])
           /\ locks[i].day = locks[j].day
           /\ slots_overlap(locks[i].start_time, locks[i].end_time,
                            locks[j].start_time, locks[j].end_time)
        THEN << <<locks[i], locks[j]>> >> ELSE <<>>])])

\* PreGAValidator._validate_locked_assignment_conflicts
validate_locked_assignment_conflicts(sess, locks) ==
    LET pairs == OverlappingLockPairs(KnownLocks(sess, locks),
                                      LAMBDA a, b : a.teacher_id = b.teacher_id)
    IN [p \in DOMAIN pairs |->
          ValidationError("locked_teacher_conflict", "hard",
                          {pairs[p][1].session_key, pairs[p][2].session_key})]

\* PreGAValidator._build_indexes: teacher_day_offs[teacher_id], whatever is_hard says
teacher_day_offs(tcs, teacher_id) ==
    UNION {Range(tcs[c].days) : c \in {c \in DOMAIN tcs :
              tcs[c].constraint_type = "day_off" /\ tcs[c].teacher_id = teacher_id}}

\* PreGAValidator._build_indexes: teacher_blocked_slots[teacher_id], whatever
\* is_hard says
teacher_blocked_slots(tcs, teacher_id) ==
    SelectSeq(tcs, LAMBDA tc :
        tc.constraint_type = "blocked_slot" /\ tc.teacher_id = teacher_id)

\* PreGAValidator._validate_locked_vs_teacher_constraints
validate_locked_vs_teacher_constraints(sess, locks, tcs) ==
    LET known == KnownLocks(sess, locks)
    IN Flatten([i \in DOMAIN known |->
          LET lock == known[i]
              blocked == teacher_blocked_slots(tcs, lock.teacher_id)
          IN (IF lock.day \in teacher_day_offs(tcs, lock.teacher_id)
              THEN << ValidationError("locked_dayoff_conflict", "hard",
                                      {lock.session_key}) >>
              ELSE <<>>)
             \o Flatten([b \in DOMAIN blocked |->
                   IF /\ lock.day = blocked[b].day
                      /\ slots_overlap(lock.start_time, lock.end_time,
                                       blocked[b].start_time, blocked[b].end_time)
                   THEN << ValidationError("locked_blocked_slot_conflict", "hard",
                                           {lock.session_key}) >>
                   ELSE <<>>])])

\* PreGAValidator._validate_locked_times_in_bounds
validate_locked_times_in_bounds(sess, locks) ==
    LET known == KnownLocks(sess, locks)
        Check(lock, failed, error_type) ==
            IF failed THEN << ValidationError(error_type, "hard", {lock.session_key}) >>
            ELSE <<>>
    IN Flatten([i \in DOMAIN known |->
          LET lock == known[i]
          IN Check(lock, lock.day \notin Range(working_days), "locked_invalid_day")
             \o Check(lock, time_to_minutes(lock.start_time)
                            < time_to_minutes(day_start_time), "locked_before_day_start")
             \o Check(lock, time_to_minutes(lock.end_time)
                            > time_to_minutes(day_end_time), "locked_after_day_end")
             \o Check(lock, lock.start_time \notin Range(allowed_start_times),
                      "locked_invalid_start_time")])

\* PreGAValidator._validate_room_lock_conflicts: locks that name a room only
validate_room_lock_conflicts(sess, locks) ==
    LET with_room == SelectSeq(locks, LAMBDA l : l.room_id # NoRoom)
        pairs == OverlappingLockPairs(KnownLocks(sess, with_room),
                                      LAMBDA a, b : a.room_id = b.room_id)
    IN [p \in DOMAIN pairs |->
          ValidationError("locked_room_conflict", "hard",
                          {pairs[p][1].session_key, pairs[p][2].session_key})]

\* PreGAValidator._validate_instructor_weekly_load, in minutes
validate_instructor_weekly_load(sess, locks) ==
    LET known == KnownLocks(sess, locks)
        teachers == SetToSeq({known[i].teacher_id : i \in DOMAIN known})
        locked_minutes(t) ==
            SumSeq([i \in DOMAIN known |->
                       IF known[i].teacher_id = t THEN known[i].duration ELSE 0])
    IN Flatten([t \in DOMAIN teachers |->
          IF locked_minutes(teachers[t]) > max_teacher_weekly_hours * 60
          THEN << ValidationError("locked_exceeds_weekly_load", "hard", {}) >>
          ELSE IF locked_minutes(teachers[t]) * 10 > max_teacher_weekly_hours * 60 * 8
          THEN << ValidationError("locked_approaching_weekly_load", "warning", {}) >>
          ELSE <<>>])

\* PreGAValidator._validate_locked_not_in_blocked_windows
validate_locked_not_in_blocked_windows(sess, locks) ==
    LET known == KnownLocks(sess, locks)
    IN Flatten([i \in DOMAIN known |->
          IF is_blocked(known[i].day, known[i].start_time, known[i].end_time)
          THEN << ValidationError("locked_in_blocked_window", "hard",
                                  {known[i].session_key}) >>
          ELSE <<>>])

\* PreGAValidator._validate_locked_session_references
validate_locked_session_references(sess, locks) ==
    Flatten([i \in DOMAIN locks |->
          IF ~HasSession(sess, locks[i].session_key)
          THEN << ValidationError("locked_invalid_session", "hard",
                                  {locks[i].session_key}) >>
          ELSE <<>>])

\* PreGAValidator.validate: the ValidationResult of checks 1 to 7
validate(sess, locks, tcs) ==
    add_errors(NewValidationResult,
        validate_locked_assignment_conflicts(sess, locks)
        \o validate_locked_vs_teacher_constraints(sess, locks, tcs)
        \o validate_locked_times_in_bounds(sess, locks)
        \o validate_room_lock_conflicts(sess, locks)
        \o validate_instructor_weekly_load(sess, locks)
        \o validate_locked_not_in_blocked_windows(sess, locks)
        \o validate_locked_session_references(sess, locks))

-----------------------------------------------------------------------------
(* Population initializer: src/classsync_core/scheduler/initializer.py     *)
(* An operator named ...Genes or ...Chromosomes is the set of values the   *)
(* method can return, one for each way its random draws can fall.          *)

RECURSIVE SeqProduct(_)
\* the sequences that take their i-th element from the i-th set
SeqProduct(sets) ==
    IF sets = <<>> THEN {<<>>}
    ELSE {<<x>> \o rest : x \in Head(sets), rest \in SeqProduct(Tail(sets))}

\* locked_map: session_key -> the last lock with that key
IsLockedKey(locks, session_key) ==
    \E i \in DOMAIN locks : locks[i].session_key = session_key

locked_map(locks, session_key) ==
    LET found == {i \in DOMAIN locks : locks[i].session_key = session_key}
    IN locks[CHOOSE i \in found : \A j \in found : j <= i]

\* PopulationInitializer._generate_time_slots: the (day, start) pairs whose
\* first 30 minutes are not blocked
time_slots ==
    {sl \in Range(working_days) \X Range(allowed_start_times) :
        ~is_blocked(sl[1], sl[2], calculate_slot_end_time(sl[2], 30))}

\* valid_slots: the time slots the duration fits in before the day ends, or all
\* of them when it fits in none
valid_slots(duration) ==
    LET fitting == {sl \in time_slots :
                       time_to_minutes(calculate_slot_end_time(sl[2], duration))
                       <= time_to_minutes(day_end_time)}
    IN IF fitting = {} THEN time_slots ELSE fitting

\* the rooms of the appropriate type, or all rooms when there is none
available_rooms(is_lab) ==
    IF is_lab THEN (IF lab_rooms # {} THEN lab_rooms ELSE all_rooms)
    ELSE (IF theory_rooms # {} THEN theory_rooms ELSE all_rooms)

\* PopulationInitializer._create_locked_gene
create_locked_gene(session, lock) ==
    LET rooms == IF lock.room_id \in RoomIds THEN {lock.room_id}
                 ELSE available_rooms(session.Is_Lab)
    IN {Gene(session, lock.day, lock.start_time, r, TRUE, lock.lock_type,
             IF lock.lock_type = "full_lock" THEN r ELSE NoRoom) : r \in rooms}

\* one gene of PopulationInitializer._create_random_chromosome
create_random_gene(session, locks) ==
    IF IsLockedKey(locks, session.Session_Key)
    THEN create_locked_gene(session, locked_map(locks, session.Session_Key))
    ELSE {Gene(session, sl[1], sl[2], r, FALSE, "None", NoRoom) :
             sl \in valid_slots(session.Duration_Minutes),
             r \in available_rooms(session.Is_Lab)}

\* PopulationInitializer._create_random_chromosome
create_random_chromosome(sess, locks) ==
    {Chromosome(genes) :
        genes \in SeqProduct([i \in DOMAIN sess |-> create_random_gene(sess[i], locks)])}

\* PopulationInitializer._has_overlap over the bookings of a resource
has_overlap(booked, resource_type, resource_id, day, start, end) ==
    \E i \in DOMAIN booked :
        /\ ResourceOf(booked[i], resource_type) = resource_id
        /\ booked[i].day = day
        /\ slots_overlap(start, end, booked[i].start_time, booked[i].end_time)

\* sessions sorted by Is_Lab, then Duration_Minutes, both descending
Harder(a, b) ==
    \/ a.Is_Lab /\ ~b.Is_Lab
    \/ a.Is_Lab = b.Is_Lab /\ a.Duration_Minutes > b.Duration_Minutes

RECURSIVE SortSessions(_)
SortSessions(sess) ==
    IF sess = <<>> THEN <<>>
    ELSE LET rest == SortSessions(SubSeq(sess, 1, Len(sess) - 1))
             s == sess[Len(sess)]
         IN SelectSeq(rest, LAMBDA x : ~Harder(s, x)) \o <<s>>
            \o SelectSeq(rest, LAMBDA x : Harder(s, x))

\* STEP 2 of _create_heuristic_chromosome for one session. st.genes are the
\* genes so far and st.booked those entered in the three schedules. An attempt
\* places the session in the slot it draws when the slot is not blocked and some
\* room is free there; fifty failed attempts leave it to a random assignment
\* that is not booked.
HeuristicStep(st, session) ==
    LET slots == valid_slots(session.Duration_Minutes)
        rooms == available_rooms(session.Is_Lab)
        end(sl) == calculate_slot_end_time(sl[2], session.Duration_Minutes)
        Free(sl, r) ==
            /\ ~is_blocked(sl[1], sl[2], end(sl))
            /\ ~has_overlap(st.booked, "room", r, sl[1], sl[2], end(sl))
            /\ ~has_overlap(st.booked, "teacher", session.Teacher_ID, sl[1], sl[2], end(sl))
            /\ ~has_overlap(st.booked, "section", session.Section_ID, sl[1], sl[2], end(sl))
        New(sl, r) == Gene(session, sl[1], sl[2], r, FALSE, "None", NoRoom)
        placed == {[genes |-> Append(st.genes, New(sl, r)),
                    booked |-> Append(st.booked, New(sl, r))] :
                      <<sl, r>> \in {p \in slots \X rooms : Free(p[1], p[2])}}
        fallback == IF \E sl \in slots : \A r \in rooms : ~Free(sl, r)
                    THEN {[genes |-> Append(st.genes, New(sl, r)), booked |-> st.booked] :
                             sl \in slots, r \in rooms}
                    ELSE {}
    IN placed \cup fallback

RECURSIVE HeuristicPlace(_, _)
HeuristicPlace(states, remaining) ==
    IF remaining = <<>> THEN states
    ELSE HeuristicPlace(UNION {HeuristicStep(st, Head(remaining)) : st \in states},
                        Tail(remaining))

\* PopulationInitializer._create_heuristic_chromosome: the locked sessions
\* first, then the others, hardest first
create_heuristic_chromosome(sess, locks) ==
    LET locked == SelectSeq(sess, LAMBDA s : IsLockedKey(locks, s.Session_Key))
        remaining == SortSessions(
            SelectSeq(sess, LAMBDA s : ~IsLockedKey(locks, s.Session_Key)))
        step1 == SeqProduct([i \in DOMAIN locked |->
                    create_locked_gene(locked[i],
                                       locked_map(locks, locked[i].Session_Key))])
    IN {Chromosome(st.genes) :
           st \in HeuristicPlace({[genes |-> g, booked |-> g] : g \in step1}, remaining)}

\* the default of create_population's heuristic_seed_ratio, 0.20, in percent
heuristic_seed_ratio_percent == 20

\* heuristic_count = int(population_size * heuristic_seed_ratio)
heuristic_count(size, ratio_percent) == (size * ratio_percent) \div 100

\* a create_population whose random_count is the whole population_size
create_population_unbalanced(sess, locks, size, ratio_percent) ==
    SeqProduct([i \in 1..(heuristic_count(size, ratio_percent) + size) |->
        IF i <= heuristic_count(size, ratio_percent)
        THEN create_heuristic_chromosome(sess, locks)
        ELSE create_random_chromosome(sess, locks)])

\* PopulationInitializer.create_population: heuristic_count heuristic
\* chromosomes, then random_count = population_size - heuristic_count random ones
create_population(sess, locks, size, ratio_percent) ==
    SeqProduct([i \in 1..size |->
        IF i <= heuristic_count(size, ratio_percent)
        THEN create_heuristic_chromosome(sess, locks)
        ELSE create_random_chromosome(sess, locks)])

-----------------------------------------------------------------------------
(* Genetic operators: src/classsync_core/scheduler/operators.py            *)

Keys(genes) == {genes[i].session_key : i \in DOMAIN genes}

\* an append that does not look at the keys the child holds
AppendUnmatched_all(child_genes, candidates) == child_genes \o candidates

RECURSIVE AppendUnmatched(_, _)
\* append each candidate whose session_key the child does not hold yet
AppendUnmatched(child_genes, candidates) ==
    IF candidates = <<>> THEN child_genes
    ELSE AppendUnmatched(
            IF Head(candidates).session_key \in Keys(child_genes) THEN child_genes
            ELSE Append(child_genes, Head(candidates)),
            Tail(candidates))

\* the genes of one offspring of _day_based_crossover: the genes of first on
\* days_from_p1, the genes of second on days_from_p2 that are not there yet, then
\* the genes of parent1 whose key is still missing
OffspringGenes(first, second, parent1, days_from_p1, days_from_p2) ==
    LET inherited ==
            AppendUnmatched(
                SelectSeq(first.genes, LAMBDA g : g.day \in days_from_p1),
                SelectSeq(second.genes, LAMBDA g : g.day \in days_from_p2))
    IN inherited
       \o SelectSeq(parent1.genes, LAMBDA g : g.session_key \notin Keys(inherited))

\* GeneticOperators._day_based_crossover: the pairs of offspring, one for each
\* set of len(days) // 2 days a shuffle can put first
day_based_crossover(parent1, parent2) ==
    LET days == Range(working_days)
        splits == {d \in SUBSET days : Cardinality(d) = Len(working_days) \div 2}
    IN {<<Chromosome(OffspringGenes(parent1, parent2, parent1, d, days \ d)),
          Chromosome(OffspringGenes(parent2, parent1, parent1, d, days \ d))>> :
           d \in splits}

\* GeneticOperators._uniform_crossover: position by position from either parent
uniform_crossover(parent1, parent2) ==
    {<<Chromosome([i \in DOMAIN parent1.genes |->
                     IF pick[i] THEN parent1.genes[i] ELSE parent2.genes[i]]),
       Chromosome([i \in DOMAIN parent1.genes |->
                     IF pick[i] THEN parent2.genes[i] ELSE parent1.genes[i]])>> :
        pick \in [DOMAIN parent1.genes -> BOOLEAN]}

\* GeneticOperators.crossover
crossover(parent1, parent2, method) ==
    IF method = "day_based" THEN day_based_crossover(parent1, parent2)
    ELSE day_based_crossover(parent1, parent2) \cup uniform_crossover(parent1, parent2)

\* does the duration fit between the start and the end of the day
FitsInDay(start_time, duration_minutes) ==
    time_to_minutes(calculate_slot_end_time(start_time, duration_minutes))
    <= time_to_minutes(day_end_time)

\* GeneticOperators._mutate_time_swap
mutate_time_swap(gene) ==
    LET available_times == {t \in Range(allowed_start_times) :
                               t # gene.start_time /\ FitsInDay(t, gene.duration_minutes)}
    IN IF available_times = {} THEN {gene}
       ELSE {update_time(gene, gene.day, t) : t \in available_times}

\* GeneticOperators._mutate_day_swap
mutate_day_swap(gene) ==
    LET available_days == {d \in Range(working_days) : d # gene.day}
    IN IF available_days = {} THEN {gene}
       ELSE {update_time(gene, d, gene.start_time) : d \in available_days}

\* GeneticOperators._mutate_room_swap
mutate_room_swap(gene) ==
    LET same_type == (IF gene.is_lab THEN lab_rooms ELSE theory_rooms) \ {gene.room_id}
        rooms == IF same_type # {} THEN same_type ELSE all_rooms \ {gene.room_id}
    IN IF rooms = {} THEN {gene} ELSE {update_room(gene, r) : r \in rooms}

\* GeneticOperators._mutate_time_shift
mutate_time_shift(gene) ==
    IF gene.start_time \notin Range(allowed_start_times) THEN {gene}
    ELSE LET current_idx == CHOOSE i \in DOMAIN allowed_start_times :
                 /\ allowed_start_times[i] = gene.start_time
                 /\ \A j \in DOMAIN allowed_start_times :
                        allowed_start_times[j] = gene.start_time => i <= j
         IN {IF /\ current_idx + shift \in DOMAIN allowed_start_times
                /\ FitsInDay(allowed_start_times[current_idx + shift],
                             gene.duration_minutes)
             THEN update_time(gene, gene.day, allowed_start_times[current_idx + shift])
             ELSE gene : shift \in {-1, 1}}

\* a mutation that does not skip locked genes
mutate_gene_unlocked(gene) ==
    {gene} \cup mutate_time_swap(gene) \cup mutate_day_swap(gene)
    \cup mutate_room_swap(gene) \cup mutate_time_shift(gene)

\* one gene in GeneticOperators.mutate: a locked gene is skipped, another is
\* left alone or put through one of the four mutations (the mutation rate is
\* strictly between 0 and 1 at every generation)
mutate_gene(gene) ==
    IF gene.is_locked THEN {gene}
    ELSE {gene} \cup mutate_time_swap(gene) \cup mutate_day_swap(gene)
         \cup mutate_room_swap(gene) \cup mutate_time_shift(gene)

\* GeneticOperators.mutate: works on chromosome.copy(), which keeps the fitness
mutate(chromosome) ==
    LET mutated == copy(chromosome)
    IN {[mutated EXCEPT !.genes = genes] :
           genes \in SeqProduct([i \in DOMAIN mutated.genes |->
                                    mutate_gene(mutated.genes[i])])}

-----------------------------------------------------------------------------
(* Repair mechanism: src/classsync_core/scheduler/repair.py                *)
(* A repair state is a record [genes, total_attempts, ok]: the genes of the *)
(* chromosome being repaired in place, stats.total_attempts and what the   *)
(* step returned.  Each operator gives the set of states a step can end in. *)

MAX_REPAIR_PASSES == 3

MAX_TOTAL_ATTEMPTS == 500

RepairState(genes, total_attempts, ok) ==
    [genes |-> genes, total_attempts |-> total_attempts, ok |-> ok]

\* RepairMechanism._restore_all_locked_genes
restore_all_locked_genes(genes) == [i \in DOMAIN genes |-> restore_lock(genes[i])]

\* would the gene at idx, put at (day, start, room), overlap another gene that
\* shares its teacher, its room or its section
HasConflictAt(genes, idx, day, start, room) ==
    LET end == calculate_slot_end_time(start, genes[idx].duration_minutes)
    IN \E o \in DOMAIN genes :
          /\ genes[o].session_key # genes[idx].session_key
          /\ genes[o].day = day
          /\ \/ genes[o].teacher_id = genes[idx].teacher_id
             \/ genes[o].room_id = room
             \/ genes[o].section_id = genes[idx].section_id
          /\ slots_overlap(genes[o].start_time, genes[o].end_time, start, end)

\* RepairMechanism._find_alternative_slot on the gene at idx: <<genes, found>>.
\* Any draw that is neither blocked nor in conflict can be the one applied, and
\* the search can fail when some draw is blocked or in conflict.
find_alternative_slot(genes, idx) ==
    LET gene == genes[idx]
        draws == Range(working_days) \X Range(allowed_start_times)
                 \X available_rooms(gene.is_lab)
        Blocked(d) == is_blocked(d[1], d[2],
                          calculate_slot_end_time(d[2], gene.duration_minutes))
        Good(d) == ~Blocked(d) /\ ~HasConflictAt(genes, idx, d[1], d[2], d[3])
    IN IF gene.is_locked \/ max_repair_attempts = 0 THEN {<<genes, FALSE>>}
       ELSE {<<[genes EXCEPT ![idx] = update_room(update_time(gene, d[1], d[2]), d[3])],
               TRUE>> : d \in {d \in draws : Good(d)}}
            \cup (IF \E d \in draws : ~Good(d) THEN {<<genes, FALSE>>} ELSE {})

RECURSIVE repair_blocked_windows_from(_, _)
\* RepairMechanism._repair_blocked_windows, from the gene at idx on
repair_blocked_windows_from(st, idx) ==
    IF idx > Len(st.genes) THEN {st}
    ELSE IF st.genes[idx].is_locked
            \/ ~is_blocked(st.genes[idx].day, st.genes[idx].start_time,
                           st.genes[idx].end_time)
    THEN repair_blocked_windows_from(st, idx + 1)
    ELSE UNION {IF r[2] THEN repair_blocked_windows_from([st EXCEPT !.genes = r[1]],
                                                         idx + 1)
                ELSE {[st EXCEPT !.ok = FALSE]} :
                   r \in find_alternative_slot(st.genes, idx)}

repair_blocked_windows(st) == repair_blocked_windows_from(st, 1)

Abs(x) == IF x < 0 THEN -x ELSE x

\* RepairMechanism._find_nearest_start_time: the first of the nearest ones
find_nearest_start_time(current_time) ==
    LET diff(i) == Abs(time_to_minutes(current_time)
                       - time_to_minutes(allowed_start_times[i]))
        nearest == CHOOSE i \in DOMAIN allowed_start_times :
                      \A j \in DOMAIN allowed_start_times :
                          diff(i) < diff(j) \/ (diff(i) = diff(j) /\ i <= j)
    IN allowed_start_times[nearest]

\* RepairMechanism._repair_invalid_start_times
repair_invalid_start_times(st) ==
    {[st EXCEPT !.genes = [i \in DOMAIN st.genes |->
        LET gene == st.genes[i]
        IN IF gene.is_locked \/ is_valid_start_time(gene.start_time) THEN gene
           ELSE update_time(gene, gene.day, find_nearest_start_time(gene.start_time))]]}

\* RepairMechanism._repair_lab_contiguity
repair_lab_contiguity(st) ==
    {[st EXCEPT !.genes = [i \in DOMAIN st.genes |->
        LET gene == st.genes[i]
        IN IF gene.is_locked \/ ~gene.is_lab \/ gene.duration_minutes = 180 THEN gene
           ELSE [gene EXCEPT !.duration_minutes = 180,
                             !.end_time = calculate_slot_end_time(gene.start_time, 180)]]]}

\* the indexes of a sequence, in order
Indexes(s) == [i \in DOMAIN s |-> i]

\* RepairMechanism._find_resource_conflicts: the overlapping pairs <<i, j>> of
\* gene indexes, in the order the schedule index {resource: {day: [gene]}} gives
find_resource_conflicts(genes, resource_type) ==
    LET Res(i) == ResourceOf(genes[i], resource_type)
        all == Indexes(genes)
        resources == SelectSeq(all, LAMBDA i : \A j \in 1..(i - 1) : Res(j) # Res(i))
        OfDay(group, first) == SelectSeq(group, LAMBDA i : genes[i].day = genes[first].day)
        Pairs(list) ==
            Flatten([a \in DOMAIN list |-> Flatten([b \in DOMAIN list |->
                IF a < b /\ slots_overlap(genes[list[a]].start_time, genes[list[a]].end_time,
                                          genes[list[b]].start_time, genes[list[b]].end_time)
                THEN << <<list[a], list[b]>> >> ELSE <<>>])])
        OfResource(first) ==
            LET group == SelectSeq(all, LAMBDA i : Res(i) = Res(first))
                days == SelectSeq(group, LAMBDA i :
                            \A j \in 1..(i - 1) :
                                Res(j) = Res(first) => genes[j].day # genes[i].day)
            IN Flatten([d \in DOMAIN days |-> Pairs(OfDay(group, days[d]))])
    IN Flatten([r \in DOMAIN resources |-> OfResource(resources[r])])

RECURSIVE TryMovable(_, _)
\* the loop over movable_genes: the first gene an alternative slot is found for
\* ends it
TryMovable(genes, movable) ==
    IF movable = <<>> THEN {genes}
    ELSE UNION {IF r[2] THEN {r[1]} ELSE TryMovable(genes, Tail(movable)) :
                   r \in find_alternative_slot(genes, Head(movable))}

\* conflicts.remove(conflict): the list without its first element equal to it
RemoveFirst(conflicts, conflict) ==
    LET first == CHOOSE k \in DOMAIN conflicts :
                    conflicts[k] = conflict /\ \A j \in 1..(k - 1) : conflicts[j] # conflict
    IN SubSeq(conflicts, 1, first - 1) \o SubSeq(conflicts, first + 1, Len(conflicts))

\* one iteration of the while loop of _repair_resource_conflicts on a loop state
\* [genes, total_attempts, conflicts, tried_conflicts, local_attempts, result],
\* result being "run" until the method returns "true" or "false"
ConflictStep(st, resource_type, max_local_attempts) ==
    IF st.conflicts = <<>> \/ st.local_attempts >= max_local_attempts
    THEN {[st EXCEPT !.result = IF st.conflicts = <<>> THEN "true" ELSE "false"]}
    ELSE IF st.total_attempts + 1 >= MAX_TOTAL_ATTEMPTS
    THEN {[st EXCEPT !.total_attempts = @ + 1, !.local_attempts = @ + 1,
                     !.result = "false"]}
    ELSE
      LET Key(c) == {st.genes[c[1]].session_key, st.genes[c[2]].session_key}
          untried == {k \in DOMAIN st.conflicts : Key(st.conflicts[k]) \notin st.tried_conflicts}
          first_untried == CHOOSE k \in untried : \A j \in untried : k <= j
          picks == IF untried # {} THEN {first_untried} ELSE DOMAIN st.conflicts
          tried == IF untried # {}
                   THEN st.tried_conflicts \cup {Key(st.conflicts[first_untried])}
                   ELSE st.tried_conflicts
          counted == [st EXCEPT !.total_attempts = @ + 1, !.local_attempts = @ + 1,
                                !.tried_conflicts = tried]
          \* movable_genes, sorted by session_key (the keys of the catalogues
          \* sort as their session numbers do)
          Movable(c) ==
              LET a == c[1]
                  b == c[2]
                  ordered == IF st.genes[a].session_number <= st.genes[b].session_number
                             THEN <<a, b>> ELSE <<b, a>>
              IN SelectSeq(ordered, LAMBDA i : ~st.genes[i].is_locked)
          After(c) ==
              IF Movable(c) = <<>>
              THEN {[counted EXCEPT !.conflicts = RemoveFirst(st.conflicts, c)]}
              ELSE {[counted EXCEPT !.genes = genes,
                                    !.conflicts = find_resource_conflicts(genes, resource_type)] :
                       genes \in TryMovable(st.genes, Movable(c))}
      IN UNION {After(st.conflicts[k]) : k \in picks}

RECURSIVE ConflictLoop(_, _, _)
\* the while loop, run on every state until each has returned
ConflictLoop(states, resource_type, max_local_attempts) ==
    LET running == {st \in states : st.result = "run"}
    IN IF running = {} THEN states
       ELSE ConflictLoop(
               (states \ running)
               \cup UNION {ConflictStep(st, resource_type, max_local_attempts) :
                              st \in running},
               resource_type, max_local_attempts)

\* RepairMechanism._repair_resource_conflicts
repair_resource_conflicts(st, resource_type) ==
    LET conflicts == find_resource_conflicts(st.genes, resource_type)
    IN IF conflicts = <<>> THEN {st}
       ELSE {RepairState(l.genes, l.total_attempts, l.result = "true") :
                l \in ConflictLoop(
                    {[genes |-> st.genes, total_attempts |-> st.total_attempts,
                      conflicts |-> conflicts, tried_conflicts |-> {},
                      local_attempts |-> 0, result |-> "run"]},
                    resource_type,
                    max_repair_attempts * Max2(Len(conflicts), 1))}

\* one entry of repair_sequence in _run_repair_pass, on every state the
\* sequence has not returned from
RepairStage(states, repair_func(_)) ==
    UNION {IF ~st.ok THEN {st}
           ELSE IF st.total_attempts >= MAX_TOTAL_ATTEMPTS THEN {[st EXCEPT !.ok = FALSE]}
           ELSE repair_func(st) : st \in states}

\* RepairMechanism._run_repair_pass
run_repair_pass(st) ==
    RepairStage(RepairStage(RepairStage(RepairStage(RepairStage(RepairStage({st},
        repair_blocked_windows),
        repair_invalid_start_times),
        repair_lab_contiguity),
        LAMBDA s : repair_resource_conflicts(s, "teacher")),
        LAMBDA s : repair_resource_conflicts(s, "room")),
        LAMBDA s : repair_resource_conflicts(s, "section"))

\* a loop that runs one pass more than MAX_REPAIR_PASSES
passes_used_up_late(pass_num, total_attempts) ==
    pass_num > MAX_REPAIR_PASSES \/ total_attempts >= MAX_TOTAL_ATTEMPTS

\* RepairMechanism.repair, for pass_num in range(self.MAX_REPAIR_PASSES) with
\* its break: is the loop over before pass pass_num
passes_used_up(pass_num, total_attempts) ==
    pass_num >= MAX_REPAIR_PASSES \/ total_attempts >= MAX_TOTAL_ATTEMPTS

RECURSIVE repair_passes(_, _)
\* the passes of RepairMechanism.repair from pass pass_num on; the locks are
\* restored after a pass that failed
repair_passes(st, pass_num) ==
    IF passes_used_up(pass_num, st.total_attempts)
    THEN {[st EXCEPT !.ok = FALSE]}
    ELSE UNION {IF r.ok THEN {r}
                ELSE repair_passes(
                        RepairState(restore_all_locked_genes(r.genes),
                                    r.total_attempts, TRUE),
                        pass_num + 1) :
                   r \in run_repair_pass(st)}

RECURSIVE repair_runs(_, _)
\* the same passes, kept as what a call of repair has used when it returns:
\* [passes, total_attempts, ok], passes being the calls of _run_repair_pass
\* and total_attempts being stats.total_attempts
repair_runs(st, pass_num) ==
    IF passes_used_up(pass_num, st.total_attempts)
    THEN {[passes |-> pass_num, total_attempts |-> st.total_attempts, ok |-> FALSE]}
    ELSE UNION {IF r.ok
                THEN {[passes |-> pass_num + 1, total_attempts |-> r.total_attempts,
                       ok |-> TRUE]}
                ELSE repair_runs(
                        RepairState(restore_all_locked_genes(r.genes),
                                    r.total_attempts, TRUE),
                        pass_num + 1) :
                   r \in run_repair_pass(st)}

\* RepairMechanism.repair: the pairs <<chromosome repaired in place, success>>
repair(chromosome) ==
    {<<[chromosome EXCEPT !.genes = r.genes], r.ok>> :
        r \in repair_passes(
                 RepairState(restore_all_locked_genes(chromosome.genes), 0, TRUE), 0)}

-----------------------------------------------------------------------------
(* GA engine: src/classsync_core/scheduler/ga_engine.py                    *)

\* the population_size argument of GAEngine.run
population_size == 2

\* the largest generations argument of GAEngine.run that is modelled
MaxGenerations == 3

\* max(population, key=lambda c: c.fitness or 0): the first of the fittest
FirstFittest(pop) ==
    pop[CHOOSE i \in DOMAIN pop :
           \A j \in DOMAIN pop :
               /\ FitnessOr0(pop[j]) <= FitnessOr0(pop[i])
               /\ (FitnessOr0(pop[j]) = FitnessOr0(pop[i]) => i <= j)]

RECURSIVE SortByFitness(_)
\* sorted(population, key=lambda c: c.fitness or 0, reverse=True): stable
SortByFitness(pop) ==
    IF pop = <<>> THEN <<>>
    ELSE LET rest == SortByFitness(SubSeq(pop, 1, Len(pop) - 1))
             c == pop[Len(pop)]
         IN SelectSeq(rest, LAMBDA x : FitnessOr0(x) >= FitnessOr0(c)) \o <<c>>
            \o SelectSeq(rest, LAMBDA x : FitnessOr0(x) < FitnessOr0(c))

\* elite_count = max(1, int(len(population) * elitism_rate))
elite_count(pop) == Max2(1, (Len(pop) * elitism_rate_percent) \div 100)

\* GAEngine._tournament_selection: the fittest of a random sample, which is any
\* chromosome that is fittest in some sample holding it
tournament_selection(pop) ==
    LET size == Min2(tournament_size, Len(pop))
    IN {pop[i] : i \in {i \in DOMAIN pop :
           \E sample \in SUBSET (DOMAIN pop) :
               /\ Cardinality(sample) = size
               /\ i \in sample
               /\ \A j \in sample : FitnessOr0(pop[j]) <= FitnessOr0(pop[i])}}

\* the children of a crossover or of the copies that stand in for it: the
\* crossover rate is strictly between 0 and 1, so both branches can be taken
Children(parent1, parent2) ==
    crossover(parent1, parent2, "day_based") \cup {<<copy(parent1), copy(parent2)>>}

\* a child after mutation and repair that is appended whatever repair returned
Repaired_unchecked(child, parent) ==
    {r[1] : r \in UNION {repair(m) : m \in mutate(child)}}

\* a child after mutation and repair, or a copy of its parent if the repair failed
Repaired(child, parent) ==
    {IF r[2] THEN r[1] ELSE copy(parent) : r \in UNION {repair(m) : m \in mutate(child)}}

\* one iteration of the while loop of _create_next_generation on new_pop: what
\* it appends, the second child only when there is room for it
Offspring(pop, new_pop) ==
    IF Len(new_pop) + 1 < Len(pop)
    THEN UNION {UNION {UNION {
            {<<c1, c2>> : c1 \in Repaired(children[1], parent1),
                          c2 \in Repaired(children[2], parent2)} :
            children \in Children(parent1, parent2)} :
            parent2 \in tournament_selection(pop)} :
            parent1 \in tournament_selection(pop)}
    ELSE UNION {
            {<<c1>> : c1 \in UNION {Repaired(first, parent1) :
                first \in {children[1] : children \in
                    UNION {Children(parent1, parent2) :
                              parent2 \in tournament_selection(pop)}}}} :
            parent1 \in tournament_selection(pop)}

RECURSIVE FillGeneration(_, _)
\* the while loop of _create_next_generation on every new population it can hold
FillGeneration(pop, new_pops) ==
    LET short == {np \in new_pops : Len(np) < Len(pop)}
    IN IF short = {} THEN new_pops
       ELSE FillGeneration(pop,
               (new_pops \ short)
               \cup UNION {{np \o more : more \in Offspring(pop, np)} : np \in short})

\* GAEngine._create_next_generation
create_next_generation(pop) ==
    LET elite == SubSeq(SortByFitness(pop), 1, elite_count(pop))
    IN {SubSeq(np, 1, Len(pop)) :
           np \in FillGeneration(pop, {[i \in DOMAIN elite |-> copy(elite[i])]})}

-----------------------------------------------------------------------------
(* The run under a seed: GAEngine.run calls random.seed(self.random_seed)  *)
(* and every draw of the run then comes from the one generator of the      *)
(* random module.  The generator is a linear congruential one here: what   *)
(* the model keeps of it is that its state after the seed is a function of *)
(* the seed and that each draw is a function of the state.  random.choice, *)
(* random.shuffle and random.sample take their draws as the library does.  *)
(* An operator named seeded_... is the method with its draws taken from    *)
(* the generator: it gives a record with the value returned and the        *)
(* generator (rng), or the initializer (ini), as the method leaves it.     *)
(* A value that is used more than once is the parameter of a local         *)
(* operator, which is applied to the expression that computes it.          *)

\* the seed of an engine that is constructed without one (random_seed=None)
NoSeed == -1

\* random.seed(self.random_seed): the state of the generator after the seed
seed_random(seed) == seed % 65537

\* the state of the generator after a draw
next_random(state) == (75 * state + 74) % 65537

\* a draw below n
randbelow(state, n) == [value |-> next_random(state) % n, rng |-> next_random(state)]

\* random.choice(seq)
choice(state, seq) ==
    LET Chosen(drawn) == [value |-> seq[drawn.value + 1], rng |-> drawn.rng]
    IN Chosen(randbelow(state, Len(seq)))

RECURSIVE shuffle_from(_, _, _)
\* random.shuffle(x) from position i down: x[i] is swapped with one of x[1..i]
shuffle_from(state, x, i) ==
    LET Swapped(j) ==
            shuffle_from(j.rng, [x EXCEPT ![i] = x[j.value + 1], ![j.value + 1] = x[i]],
                         i - 1)
    IN IF i < 2 THEN [value |-> x, rng |-> state] ELSE Swapped(randbelow(state, i))

shuffle(state, x) == shuffle_from(state, x, Len(x))

RECURSIVE sample_from(_, _, _, _)
\* random.sample(population, k): each pick is replaced in the pool by the last
\* element that is still in it
sample_from(state, pool, k, result) ==
    LET Picked(j, n) == sample_from(j.rng, [pool EXCEPT ![j.value + 1] = pool[n]], k,
                                    Append(result, pool[j.value + 1]))
        Among(n) == Picked(randbelow(state, n), n)
    IN IF Len(result) >= k THEN [value |-> result, rng |-> state]
       ELSE Among(Len(pool) - Len(result))

sample(state, seq, k) == sample_from(state, seq, k, <<>>)

\* rooms_df['Room_Code'].tolist(): the rooms in the order of the catalogue
all_room_list == [i \in DOMAIN Rooms |-> Rooms[i].Room_ID]

\* the lab_rooms and theory_rooms lists as each __init__ builds them
room_list(is_lab) == SelectSeq(all_room_list, LAMBDA r : IsLabRoom(r) = is_lab)

\* the list of the appropriate type, or all the rooms when it is empty
rooms_or_all(own) == IF own # <<>> THEN own ELSE all_room_list

\* PopulationInitializer.__init__: the room lists the initializer holds
NewInitializerRooms == [lab_rooms |-> room_list(TRUE), theory_rooms |-> room_list(FALSE)]

\* valid_slots as the list the loop over self.time_slots builds: day by day
ordered_valid_slots(duration) ==
    SelectSeq(Flatten([d \in DOMAIN working_days |->
                          [s \in DOMAIN allowed_start_times |->
                              <<working_days[d], allowed_start_times[s]>>]]),
              LAMBDA sl : sl \in valid_slots(duration))

\* random.choice(self.lab_rooms) if self.lab_rooms else
\* random.choice(self.rooms_df['Room_Code'].tolist()), and so for theory
seeded_choice_room(ini, is_lab) ==
    LET Drawn(room) == [value |-> room.value, ini |-> [ini EXCEPT !.rng = room.rng]]
    IN Drawn(choice(ini.rng,
                    rooms_or_all(IF is_lab THEN ini.lab_rooms ELSE ini.theory_rooms)))

\* PopulationInitializer._create_locked_gene
seeded_create_locked_gene(ini, session, lock) ==
    LET Locked(room) ==
            [value |-> Gene(session, lock.day, lock.start_time, room.value, TRUE,
                            lock.lock_type,
                            IF lock.lock_type = "full_lock" THEN room.value ELSE NoRoom),
             ini |-> room.ini]
    IN Locked(IF lock.room_id \in RoomIds THEN [value |-> lock.room_id, ini |-> ini]
              ELSE seeded_choice_room(ini, session.Is_Lab))

RECURSIVE seeded_random_genes(_, _, _, _)
\* the loop of _create_random_chromosome over the sessions that are left: a
\* locked gene, or a slot and then a room drawn
seeded_random_genes(ini, sess, locks, genes) ==
    LET Placed(session, slot, room) ==
            [value |-> Gene(session, slot.value[1], slot.value[2], room.value,
                            FALSE, "None", NoRoom),
             ini |-> room.ini]
        InSlot(session, slot) ==
            Placed(session, slot,
                   seeded_choice_room([ini EXCEPT !.rng = slot.rng], session.Is_Lab))
        Appended(gene) ==
            seeded_random_genes(gene.ini, Tail(sess), locks, Append(genes, gene.value))
        Of(session) ==
            Appended(IF IsLockedKey(locks, session.Session_Key)
                     THEN seeded_create_locked_gene(
                              ini, session, locked_map(locks, session.Session_Key))
                     ELSE InSlot(session,
                                 choice(ini.rng,
                                        ordered_valid_slots(session.Duration_Minutes))))
    IN IF sess = <<>> THEN [value |-> genes, ini |-> ini] ELSE Of(Head(sess))

\* PopulationInitializer._create_random_chromosome
seeded_create_random_chromosome(ini, sess, locks) ==
    LET Made(genes) == [value |-> Chromosome(genes.value), ini |-> genes.ini]
    IN Made(seeded_random_genes(ini, sess, locks, <<>>))

\* max_attempts of _create_heuristic_chromosome
max_attempts == 50

\* one attempt of the while loop of STEP 2: a slot is drawn and the first room
\* of the list that is free there is taken
heuristic_attempt(state, booked, session, slots, rooms) ==
    LET Free(day, start, end) ==
            SelectSeq(rooms, LAMBDA r :
                /\ ~has_overlap(booked, "room", r, day, start, end)
                /\ ~has_overlap(booked, "teacher", session.Teacher_ID, day, start, end)
                /\ ~has_overlap(booked, "section", session.Section_ID, day, start, end))
        Placed(slot, end, free) ==
            IF is_blocked(slot.value[1], slot.value[2], end) \/ free = <<>>
            THEN [found |-> FALSE, rng |-> slot.rng]
            ELSE [found |-> TRUE, rng |-> slot.rng,
                  gene |-> Gene(session, slot.value[1], slot.value[2], free[1],
                                FALSE, "None", NoRoom)]
        Ending(slot, end) == Placed(slot, end, Free(slot.value[1], slot.value[2], end))
        Attempt(slot) ==
            Ending(slot, calculate_slot_end_time(slot.value[2], session.Duration_Minutes))
    IN Attempt(choice(state, slots))

RECURSIVE seeded_heuristic_attempts(_, _, _, _, _, _)
\* the while loop of STEP 2, which ends after max_attempts attempts
seeded_heuristic_attempts(state, booked, session, slots, rooms, attempts) ==
    LET Tried(r) ==
            IF r.found THEN r
            ELSE seeded_heuristic_attempts(r.rng, booked, session, slots, rooms,
                                           attempts + 1)
    IN IF attempts >= max_attempts THEN [found |-> FALSE, rng |-> state]
       ELSE Tried(heuristic_attempt(state, booked, session, slots, rooms))

\* STEP 2 of _create_heuristic_chromosome for one session, on [genes, booked,
\* ini]. available_rooms is self.lab_rooms or self.theory_rooms itself, so
\* random.shuffle(available_rooms) reorders the list the initializer holds;
\* only the list made of rooms_df when that one is empty is a new one.  After
\* max_attempts failures a slot and a room are drawn and nothing is booked.
seeded_heuristic_step(st, session) ==
    LET Held(own, rooms, state) ==
            [rng |-> state,
             lab_rooms |-> IF session.Is_Lab /\ own # <<>> THEN rooms
                           ELSE st.ini.lab_rooms,
             theory_rooms |-> IF ~session.Is_Lab /\ own # <<>> THEN rooms
                              ELSE st.ini.theory_rooms]
        Unplaced(own, rooms, slot, room) ==
            [genes |-> Append(st.genes, Gene(session, slot.value[1], slot.value[2],
                                             room.value, FALSE, "None", NoRoom)),
             booked |-> st.booked,
             ini |-> Held(own, rooms, room.rng)]
        Fallback(own, rooms, slot) == Unplaced(own, rooms, slot, choice(slot.rng, rooms))
        Attempted(own, rooms, slots, placed) ==
            IF placed.found
            THEN [genes |-> Append(st.genes, placed.gene),
                  booked |-> Append(st.booked, placed.gene),
                  ini |-> Held(own, rooms, placed.rng)]
            ELSE Fallback(own, rooms, choice(placed.rng, slots))
        Shuffled(own, shuffled, slots) ==
            Attempted(own, shuffled.value, slots,
                      seeded_heuristic_attempts(shuffled.rng, st.booked, session, slots,
                                                shuffled.value, 0))
        Available(own) ==
            Shuffled(own, shuffle(st.ini.rng, rooms_or_all(own)),
                     ordered_valid_slots(session.Duration_Minutes))
    IN Available(IF session.Is_Lab THEN st.ini.lab_rooms ELSE st.ini.theory_rooms)

RECURSIVE seeded_heuristic_place(_, _)
seeded_heuristic_place(st, remaining) ==
    IF remaining = <<>> THEN st
    ELSE seeded_heuristic_place(seeded_heuristic_step(st, Head(remaining)),
                                Tail(remaining))

\* PopulationInitializer._create_heuristic_chromosome: the locked sessions
\* first, then the others, hardest first
seeded_create_heuristic_chromosome(ini, sess, locks) ==
    LET Made(done) == [value |-> Chromosome(done.genes), ini |-> done.ini]
        Step2(locked) ==
            Made(seeded_heuristic_place(
                     [genes |-> locked.value, booked |-> locked.value, ini |-> locked.ini],
                     SortSessions(SelectSeq(sess, LAMBDA s :
                                      ~IsLockedKey(locks, s.Session_Key)))))
    IN Step2(seeded_random_genes(
                 ini, SelectSeq(sess, LAMBDA s : IsLockedKey(locks, s.Session_Key)),
                 locks, <<>>))

RECURSIVE seeded_create_population_from(_, _, _, _, _, _)
seeded_create_population_from(ini, sess, locks, size, ratio_percent, pop) ==
    LET Grown(made) ==
            seeded_create_population_from(made.ini, sess, locks, size, ratio_percent,
                                          Append(pop, made.value))
    IN IF Len(pop) >= size THEN [value |-> pop, ini |-> ini]
       ELSE Grown(IF Len(pop) < heuristic_count(size, ratio_percent)
                  THEN seeded_create_heuristic_chromosome(ini, sess, locks)
                  ELSE seeded_create_random_chromosome(ini, sess, locks))

\* PopulationInitializer.create_population
seeded_create_population(ini, sess, locks, size, ratio_percent) ==
    seeded_create_population_from(ini, sess, locks, size, ratio_percent, <<>>)

\* GAEngine._tournament_selection: max of the sample, the first of the fittest
seeded_tournament_selection(state, pop) ==
    LET Winner(tournament) ==
            [value |-> FirstFittest(tournament.value), rng |-> tournament.rng]
    IN Winner(sample(state, pop, Min2(tournament_size, Len(pop))))

\* GeneticOperators._day_based_crossover
seeded_day_based_crossover(state, parent1, parent2) ==
    LET Split(days_from_p1, days_from_p2, state_after) ==
            [value |->
               <<Chromosome(OffspringGenes(parent1, parent2, parent1,
                                           days_from_p1, days_from_p2)),
                 Chromosome(OffspringGenes(parent2, parent1, parent1,
                                           days_from_p1, days_from_p2))>>,
             rng |-> state_after]
        Shuffled(days, split_point) ==
            Split(Range(SubSeq(days.value, 1, split_point)),
                  Range(SubSeq(days.value, split_point + 1, Len(days.value))),
                  days.rng)
    IN Shuffled(shuffle(state, working_days), Len(working_days) \div 2)

\* config.get_mutation_rate, in percent
get_mutation_rate(gen) == IF gen < 25 THEN 15 ELSE IF gen < 25 * 3 THEN 10 ELSE 5

\* one of _mutate_time_swap, _mutate_day_swap, _mutate_room_swap and
\* _mutate_time_shift on a gene; none draws when it has nothing to choose from
seeded_mutate_gene(state, gene, mutation_type) ==
    LET TimeSwap(available_times) ==
            LET To(t) == [value |-> update_time(gene, gene.day, t.value), rng |-> t.rng]
            IN IF available_times = <<>> THEN [value |-> gene, rng |-> state]
               ELSE To(choice(state, available_times))
        DaySwap(available_days) ==
            LET To(d) == [value |-> update_time(gene, d.value, gene.start_time),
                          rng |-> d.rng]
            IN IF available_days = <<>> THEN [value |-> gene, rng |-> state]
               ELSE To(choice(state, available_days))
        RoomSwap(available_rooms_of_type) ==
            LET To(r) == [value |-> update_room(gene, r.value), rng |-> r.rng]
                Among(rooms) == IF rooms = <<>> THEN [value |-> gene, rng |-> state]
                                ELSE To(choice(state, rooms))
            IN Among(IF available_rooms_of_type # <<>> THEN available_rooms_of_type
                     ELSE SelectSeq(all_room_list, LAMBDA r : r # gene.room_id))
        TimeShift(current_idx) ==
            LET To(new_idx, state_after) ==
                    [value |->
                       IF /\ new_idx \in DOMAIN allowed_start_times
                          /\ FitsInDay(allowed_start_times[new_idx], gene.duration_minutes)
                       THEN update_time(gene, gene.day, allowed_start_times[new_idx])
                       ELSE gene,
                     rng |-> state_after]
                By(shift) == To(current_idx + shift.value, shift.rng)
            IN By(choice(state, <<-1, 1>>))
    IN CASE mutation_type = "time_swap" ->
              TimeSwap(SelectSeq(allowed_start_times, LAMBDA t :
                          t # gene.start_time /\ FitsInDay(t, gene.duration_minutes)))
         [] mutation_type = "day_swap" ->
              DaySwap(SelectSeq(working_days, LAMBDA d : d # gene.day))
         [] mutation_type = "room_swap" ->
              RoomSwap(SelectSeq(room_list(gene.is_lab), LAMBDA r : r # gene.room_id))
         [] OTHER ->
              IF gene.start_time \notin Range(allowed_start_times)
              THEN [value |-> gene, rng |-> state]
              ELSE TimeShift(CHOOSE i \in DOMAIN allowed_start_times :
                                /\ allowed_start_times[i] = gene.start_time
                                /\ \A j \in DOMAIN allowed_start_times :
                                       allowed_start_times[j] = gene.start_time => i <= j)

RECURSIVE seeded_mutate_from(_, _, _, _)
\* the loop of GeneticOperators.mutate from the gene at i on: a locked gene is
\* skipped, another is mutated when random.random() < mutation_rate, by the
\* mutation random.choice names
seeded_mutate_from(state, genes, i, mutation_rate) ==
    LET Mutated(mutated) == [state |-> mutated.rng,
                             genes |-> [genes EXCEPT ![i] = mutated.value]]
        Typed(mutation_type) ==
            Mutated(seeded_mutate_gene(mutation_type.rng, genes[i], mutation_type.value))
        Drawn(hit) ==
            IF hit.value < mutation_rate
            THEN Typed(choice(hit.rng, <<"time_swap", "day_swap",
                                         "room_swap", "time_shift">>))
            ELSE [state |-> hit.rng, genes |-> genes]
        Next_(after) == seeded_mutate_from(after.state, after.genes, i + 1, mutation_rate)
    IN IF i > Len(genes) THEN [value |-> genes, rng |-> state]
       ELSE Next_(IF genes[i].is_locked THEN [state |-> state, genes |-> genes]
                  ELSE Drawn(randbelow(state, 100)))

\* GeneticOperators.mutate: works on chromosome.copy(), which keeps the fitness
seeded_mutate(state, chromosome, gen) ==
    LET Mutated(copied, genes) ==
            [value |-> [copied EXCEPT !.genes = genes.value], rng |-> genes.rng]
        Copied(copied) ==
            Mutated(copied,
                    seeded_mutate_from(state, copied.genes, 1, get_mutation_rate(gen)))
    IN Copied(copy(chromosome))

\* RepairMechanism._find_alternative_slot on the gene at idx: one attempt, in
\* which the day, the start and, when the slot is not blocked, the room are
\* drawn
alternative_slot_attempt(state, genes, idx) ==
    LET InRoom(new_day, new_start, new_room) ==
            IF HasConflictAt(genes, idx, new_day.value, new_start.value, new_room.value)
            THEN [genes |-> genes, found |-> FALSE, rng |-> new_room.rng]
            ELSE [genes |-> [genes EXCEPT ![idx] =
                                update_room(update_time(genes[idx], new_day.value,
                                                        new_start.value),
                                            new_room.value)],
                  found |-> TRUE, rng |-> new_room.rng]
        AtStart(new_day, new_start) ==
            IF is_blocked(new_day.value, new_start.value,
                          calculate_slot_end_time(new_start.value,
                                                  genes[idx].duration_minutes))
            THEN [genes |-> genes, found |-> FALSE, rng |-> new_start.rng]
            ELSE InRoom(new_day, new_start,
                        choice(new_start.rng,
                               rooms_or_all(room_list(genes[idx].is_lab))))
        OnDay(new_day) == AtStart(new_day, choice(new_day.rng, allowed_start_times))
    IN OnDay(choice(state, working_days))

RECURSIVE seeded_find_alternative_slot(_, _, _, _)
\* RepairMechanism._find_alternative_slot from the given attempt on
seeded_find_alternative_slot(state, genes, idx, attempt) ==
    LET Tried(r) ==
            IF r.found THEN r
            ELSE seeded_find_alternative_slot(r.rng, genes, idx, attempt + 1)
    IN IF genes[idx].is_locked \/ attempt >= max_repair_attempts
       THEN [genes |-> genes, found |-> FALSE, rng |-> state]
       ELSE Tried(alternative_slot_attempt(state, genes, idx))

RECURSIVE seeded_repair_blocked_windows_from(_, _)
\* RepairMechanism._repair_blocked_windows on [genes, total_attempts, ok, rng]
seeded_repair_blocked_windows_from(st, idx) ==
    LET Moved(r) ==
            IF r.found THEN [st EXCEPT !.genes = r.genes, !.rng = r.rng]
            ELSE [st EXCEPT !.ok = FALSE, !.rng = r.rng]
        Next_(after) ==
            IF after.ok THEN seeded_repair_blocked_windows_from(after, idx + 1)
            ELSE after
    IN IF idx > Len(st.genes) THEN st
       ELSE Next_(IF st.genes[idx].is_locked
                     \/ ~is_blocked(st.genes[idx].day, st.genes[idx].start_time,
                                    st.genes[idx].end_time)
                  THEN st
                  ELSE Moved(seeded_find_alternative_slot(st.rng, st.genes, idx, 0)))

RECURSIVE seeded_try_movable(_, _, _)
\* the loop over movable_genes: the first gene an alternative slot is found for
\* ends it
seeded_try_movable(state, genes, movable) ==
    LET Tried(r) ==
            IF r.found THEN [genes |-> r.genes, rng |-> r.rng]
            ELSE seeded_try_movable(r.rng, genes, Tail(movable))
    IN IF movable = <<>> THEN [genes |-> genes, rng |-> state]
       ELSE Tried(seeded_find_alternative_slot(state, genes, Head(movable), 0))

RECURSIVE seeded_conflict_loop(_, _, _)
\* the while loop of _repair_resource_conflicts on [genes, total_attempts,
\* conflicts, tried_conflicts, local_attempts, rng]: a conflict that was not
\* tried yet is taken first, then random.choice(conflicts); its movable genes
\* are its unlocked ones, sorted by session_key (the keys of the catalogues
\* sort as their session numbers do)
seeded_conflict_loop(st, resource_type, max_local_attempts) ==
    LET Key(c) == {st.genes[c[1]].session_key, st.genes[c[2]].session_key}
        Moved(moved) ==
            [genes |-> moved.genes,
             conflicts |-> find_resource_conflicts(moved.genes, resource_type),
             rng |-> moved.rng]
        Movable(conflict, tried, state, movable) ==
            [tried |-> tried,
             after |-> IF movable = <<>>
                       THEN [genes |-> st.genes,
                             conflicts |-> RemoveFirst(st.conflicts, conflict),
                             rng |-> state]
                       ELSE Moved(seeded_try_movable(state, st.genes, movable))]
        Picked(conflict, tried, state) ==
            Movable(conflict, tried, state,
                    SelectSeq(IF st.genes[conflict[1]].session_number
                                 <= st.genes[conflict[2]].session_number
                              THEN <<conflict[1], conflict[2]>>
                              ELSE <<conflict[2], conflict[1]>>,
                              LAMBDA i : ~st.genes[i].is_locked))
        Pick(pick) == Picked(pick.value, pick.tried, pick.rng)
        FirstOf(untried) == CHOOSE k \in untried : \A j \in untried : k <= j
        Untried(conflict) ==
            [value |-> conflict, tried |-> st.tried_conflicts \cup {Key(conflict)},
             rng |-> st.rng]
        Drawn(drawn) ==
            [value |-> drawn.value, tried |-> st.tried_conflicts, rng |-> drawn.rng]
        Among(untried) ==
            Pick(IF untried # {} THEN Untried(st.conflicts[FirstOf(untried)])
                 ELSE Drawn(choice(st.rng, st.conflicts)))
        Next_(done) ==
            seeded_conflict_loop(
                [genes |-> done.after.genes,
                 total_attempts |-> st.total_attempts + 1,
                 conflicts |-> done.after.conflicts,
                 tried_conflicts |-> done.tried,
                 local_attempts |-> st.local_attempts + 1,
                 rng |-> done.after.rng],
                resource_type, max_local_attempts)
    IN IF st.conflicts = <<>> \/ st.local_attempts >= max_local_attempts
       THEN [genes |-> st.genes, total_attempts |-> st.total_attempts,
             ok |-> st.conflicts = <<>>, rng |-> st.rng]
       ELSE IF st.total_attempts + 1 >= MAX_TOTAL_ATTEMPTS
       THEN [genes |-> st.genes, total_attempts |-> st.total_attempts + 1,
             ok |-> FALSE, rng |-> st.rng]
       ELSE Next_(Among({k \in DOMAIN st.conflicts :
                            Key(st.conflicts[k]) \notin st.tried_conflicts}))

\* RepairMechanism._repair_resource_conflicts
seeded_repair_resource_conflicts(st, resource_type) ==
    LET Found(conflicts) ==
            IF conflicts = <<>> THEN st
            ELSE seeded_conflict_loop(
                     [genes |-> st.genes, total_attempts |-> st.total_attempts,
                      conflicts |-> conflicts, tried_conflicts |-> {},
                      local_attempts |-> 0, rng |-> st.rng],
                     resource_type, max_repair_attempts * Max2(Len(conflicts), 1))
    IN Found(find_resource_conflicts(st.genes, resource_type))

\* the entries of repair_sequence in _run_repair_pass
repair_sequence ==
    <<"blocked_windows", "invalid_start_times", "lab_contiguity",
      "teacher", "room", "section">>

RECURSIVE seeded_run_repair_pass_from(_, _)
\* RepairMechanism._run_repair_pass from the entry at position k on: it
\* returns False when the attempts are used up or an entry returns False
seeded_run_repair_pass_from(st, k) ==
    LET TheOne(states) == CHOOSE s \in states : TRUE
        Stage(name) ==
            CASE name = "blocked_windows" -> seeded_repair_blocked_windows_from(st, 1)
              [] name = "invalid_start_times" -> TheOne(repair_invalid_start_times(st))
              [] name = "lab_contiguity" -> TheOne(repair_lab_contiguity(st))
              [] OTHER -> seeded_repair_resource_conflicts(st, name)
    IN IF k > Len(repair_sequence) \/ ~st.ok THEN st
       ELSE IF st.total_attempts >= MAX_TOTAL_ATTEMPTS THEN [st EXCEPT !.ok = FALSE]
       ELSE seeded_run_repair_pass_from(Stage(repair_sequence[k]), k + 1)

RECURSIVE seeded_repair_passes(_, _)
\* the passes of RepairMechanism.repair from pass pass_num on; the locks are
\* restored after a pass that failed
seeded_repair_passes(st, pass_num) ==
    LET Passed(r) ==
            IF r.ok THEN r
            ELSE seeded_repair_passes(
                     [r EXCEPT !.genes = restore_all_locked_genes(r.genes), !.ok = TRUE],
                     pass_num + 1)
    IN IF pass_num >= MAX_REPAIR_PASSES \/ st.total_attempts >= MAX_TOTAL_ATTEMPTS
       THEN [st EXCEPT !.ok = FALSE]
       ELSE Passed(seeded_run_repair_pass_from(st, 1))

\* RepairMechanism.repair: the chromosome repaired in place and what is returned
seeded_repair(state, chromosome) ==
    LET Returned(r) ==
            [value |-> [chromosome EXCEPT !.genes = r.genes], success |-> r.ok,
             rng |-> r.rng]
    IN Returned(seeded_repair_passes(
                    [genes |-> restore_all_locked_genes(chromosome.genes),
                     total_attempts |-> 0, ok |-> TRUE, rng |-> state], 0))

\* config.crossover_rate, in percent
crossover_rate_percent == 80

RECURSIVE seeded_offspring(_, _, _, _)
\* the children of one turn of the while loop of _create_next_generation from
\* child k on, on [rng, out]: the child is repaired and appended, or a copy of
\* its parent when the repair failed; the second one only when there is room
seeded_offspring(st, pairs, k, size) ==
    LET Kept(repaired) ==
            [rng |-> repaired.rng,
             out |-> Append(st.out, IF repaired.success THEN repaired.value
                                    ELSE copy(pairs[k].parent))]
    IN IF k > Len(pairs) \/ Len(st.out) >= size THEN st
       ELSE seeded_offspring(Kept(seeded_repair(st.rng, pairs[k].child)),
                             pairs, k + 1, size)

RECURSIVE seeded_mutate_children(_, _, _, _)
\* offspring1 = mutate(offspring1, generation), then offspring2 likewise, on
\* [rng, out] from child k on
seeded_mutate_children(st, children, k, gen) ==
    LET Mutated(child) == [rng |-> child.rng, out |-> Append(st.out, child.value)]
    IN IF k > Len(children) THEN st
       ELSE seeded_mutate_children(Mutated(seeded_mutate(st.rng, children[k], gen)),
                                   children, k + 1, gen)

RECURSIVE seeded_select_parents(_, _, _)
\* parent1 = self._tournament_selection(), then parent2 likewise, on [rng, out]
seeded_select_parents(st, pop, n) ==
    LET Selected(parent) == [rng |-> parent.rng, out |-> Append(st.out, parent.value)]
    IN IF n = 0 THEN st
       ELSE seeded_select_parents(Selected(seeded_tournament_selection(st.rng, pop)),
                                  pop, n - 1)

RECURSIVE seeded_fill_generation(_, _, _, _)
\* the while loop of GAEngine._create_next_generation: two parents, a
\* crossover when random.random() < crossover_rate or else their copies, both
\* children mutated, then repaired and appended
seeded_fill_generation(state, pop, new_pop, gen) ==
    LET Appended(offspring) ==
            seeded_fill_generation(offspring.rng, pop, offspring.out, gen)
        Mutated(parents, mutated) ==
            Appended(seeded_offspring(
                         [rng |-> mutated.rng, out |-> new_pop],
                         [k \in 1..2 |-> [parent |-> parents[k], child |-> mutated.out[k]]],
                         1, Len(pop)))
        Crossed(parents, children) ==
            Mutated(parents,
                    seeded_mutate_children([rng |-> children.rng, out |-> <<>>],
                                           children.value, 1, gen))
        Drawn(parents, cross) ==
            Crossed(parents,
                    IF cross.value < crossover_rate_percent
                    THEN seeded_day_based_crossover(cross.rng, parents[1], parents[2])
                    ELSE [value |-> <<copy(parents[1]), copy(parents[2])>>,
                          rng |-> cross.rng])
        Selected(parents) == Drawn(parents.out, randbelow(parents.rng, 100))
    IN IF Len(new_pop) >= Len(pop) THEN [value |-> new_pop, rng |-> state]
       ELSE Selected(seeded_select_parents([rng |-> state, out |-> <<>>], pop, 2))

\* GAEngine._create_next_generation: copies of the elite, then the offspring,
\* trimmed to the size of the population
seeded_create_next_generation(state, pop, gen) ==
    LET Trimmed(filled) == [value |-> SubSeq(filled.value, 1, Len(pop)), rng |-> filled.rng]
        Elite(elite) ==
            Trimmed(seeded_fill_generation(state, pop,
                                           [i \in DOMAIN elite |-> copy(elite[i])], gen))
    IN Elite(SubSeq(SortByFitness(pop), 1, elite_count(pop)))

-----------------------------------------------------------------------------
(* The inputs of the modelled runs.                                        *)

Lock(session_key, day, start_time, room_id, lock_type) ==
    [session_key |-> session_key, day |-> day, start_time |-> start_time,
     room_id |-> room_id, lock_type |-> lock_type]

DayOff(teacher_id, days, is_hard) ==
    [teacher_id |-> teacher_id, constraint_type |-> "day_off", is_hard |-> is_hard,
     day |-> "None", days |-> days, start_time |-> NoTime, end_time |-> NoTime]

BlockedSlot(teacher_id, day, start_time, end_time, is_hard) ==
    [teacher_id |-> teacher_id, constraint_type |-> "blocked_slot", is_hard |-> is_hard,
     day |-> day, days |-> <<>>, start_time |-> start_time, end_time |-> end_time]

\* config.min_acceptable_fitness
min_acceptable_fitness == 850

Inputs(sess, locks, tcs, generations, target) ==
    [sessions |-> sess, locked_assignments |-> locks, teacher_constraints |-> tcs,
     generations |-> generations, min_acceptable_fitness |-> target]

\* the runs of the engine that are modelled: what GAEngine is constructed with,
\* the generations argument of run and config.min_acceptable_fitness in
\* thousandths, which is the default, that no chromosome reaches, or 700
EngineInputs ==
    { \* a lab whose teacher has a hard day-off on Monday
      Inputs(SessionsLab, <<>>, << DayOff(2, <<"Monday">>, TRUE) >>,
             MaxGenerations, min_acceptable_fitness * 1000),
      \* two sessions of one teacher, one of them locked in time
      Inputs(SessionsTheory, << Lock("S1", "Tuesday", <<8, 0>>, NoRoom, "time_only") >>,
             <<>>, MaxGenerations, 700 * 1000),
      \* one room for two teachers, one session locked into it
      Inputs(SessionsRoom, << Lock("S1", "Monday", <<8, 0>>, 1, "full_lock") >>, <<>>,
             1, min_acceptable_fitness * 1000),
      \* two sessions of one section locked to the same time
      Inputs(SessionsLab, << Lock("S1", "Tuesday", <<8, 0>>, NoRoom, "time_only"),
                             Lock("S3", "Tuesday", <<8, 0>>, NoRoom, "time_only") >>,
             <<>>, MaxGenerations, min_acceptable_fitness * 1000),
      \* two sessions of one teacher locked to the same time
      Inputs(SessionsTheory, << Lock("S1", "Monday", <<8, 0>>, NoRoom, "time_only"),
                                Lock("S2", "Monday", <<8, 0>>, 1, "full_lock") >>,
             <<>>, 1, min_acceptable_fitness * 1000),
      \* no session at all
      Inputs(<<>>, <<>>, <<>>, MaxGenerations, min_acceptable_fitness * 1000) }

\* no Gene object and no list of genes is kept by identity
NoObjects == [genes |-> <<>>, lists |-> <<>>]

\* no parents and children are in hand
NoFrame == <<>>

\* an engine that is constructed without a seed, on the two-room catalogue;
\* its chromosomes are kept as values
Unseeded ==
    /\ rooms_df = RoomCatalogue
    /\ heap = NoObjects
    /\ frame = NoFrame
    /\ random_seed = NoSeed
    /\ rng = 0
    /\ initializer_rooms = NewInitializerRooms
    /\ run_results = <<>>

\* the state before any population exists
NoRun ==
    /\ population = <<>>
    /\ new_population = <<>>
    /\ best_chromosome = Chromosome(<<>>)
    /\ best_fitness = 0
    /\ stagnant_generations = 0
    /\ generation = 0
    /\ best_fitness_history = <<>>
    /\ validation = NewValidationResult

Init ==
    /\ pc = "validate"
    /\ Unseeded
    /\ \E in \in EngineInputs :
          /\ sessions = in.sessions
          /\ locked_assignments = in.locked_assignments
          /\ teacher_constraints = in.teacher_constraints
          /\ max_gens = in.generations
          /\ min_fit = in.min_acceptable_fitness
    /\ NoRun

\* The entry point validates before it runs the engine: a result with errors
\* aborts the run before a population is created (spec 4.3, 4.7).
generate_timetable_validate ==
    /\ pc = "validate"
    /\ validation' = validate(sessions, locked_assignments, teacher_constraints)
    /\ pc' = IF validation'.is_valid THEN "run" ELSE "aborted"
    /\ UNCHANGED <<sessions, locked_assignments, teacher_constraints, max_gens, min_fit,
                rooms_df, heap, frame, random_seed, rng, initializer_rooms, run_results,
                   population, new_population, best_chromosome, best_fitness,
                   stagnant_generations, generation, best_fitness_history>>

\* GAEngine.run up to the evolution loop: create and evaluate the population,
\* take its fittest chromosome as the best
Run_Initialize ==
    /\ pc = "run"
    /\ \E created \in create_population(sessions, locked_assignments, population_size,
                                        heuristic_seed_ratio_percent) :
          /\ population' = [i \in DOMAIN created |->
                               evaluate(created[i], teacher_constraints)]
          /\ best_chromosome' = FirstFittest(population')
          /\ best_fitness' = FitnessOr0(best_chromosome')
    /\ stagnant_generations' = 0
    /\ generation' = 0
    /\ pc' = "next_generation"
    /\ UNCHANGED <<sessions, locked_assignments, teacher_constraints, max_gens, min_fit,
                rooms_df, heap, frame, random_seed, rng, initializer_rooms, run_results,
                   new_population, best_fitness_history, validation>>

\* GAEngine.run, the evolution loop: new_population = _create_next_generation(...)
Run_CreateNextGeneration ==
    /\ pc = "next_generation"
    /\ new_population' \in create_next_generation(population)
    /\ pc' = "evaluate"
    /\ UNCHANGED <<sessions, locked_assignments, teacher_constraints, max_gens, min_fit,
                rooms_df, heap, frame, random_seed, rng, initializer_rooms, run_results,
                   population, best_chromosome, best_fitness, stagnant_generations,
                   generation, best_fitness_history, validation>>

\* an update that takes the newest chromosome of the generation as the best
update_best_latest(new_pop, best, fitness, stagnant) ==
    [best_chromosome |-> copy(new_pop[Len(new_pop)]),
     best_fitness |-> FitnessOr0(new_pop[Len(new_pop)]),
     stagnant_generations |-> 0]

\* an update that also replaces the best on a tie
update_best_on_tie(new_pop, best, fitness, stagnant) ==
    LET generation_best == FirstFittest(new_pop)
    IN IF generation_best.fitness >= fitness
       THEN [best_chromosome |-> copy(generation_best),
             best_fitness |-> generation_best.fitness,
             stagnant_generations |-> IF generation_best.fitness > fitness
                                      THEN 0 ELSE stagnant + 1]
       ELSE [best_chromosome |-> best,
             best_fitness |-> fitness,
             stagnant_generations |-> stagnant + 1]

\* GAEngine.run, "Update best": the best chromosome, the best fitness and the
\* count of stagnant generations after a generation whose evaluated population
\* is new_pop
update_best(new_pop, best, fitness, stagnant) ==
    LET generation_best == FirstFittest(new_pop)
    IN IF generation_best.fitness > fitness
       THEN [best_chromosome |-> copy(generation_best),
             best_fitness |-> generation_best.fitness,
             stagnant_generations |-> 0]
       ELSE [best_chromosome |-> best,
             best_fitness |-> fitness,
             stagnant_generations |-> stagnant + 1]

\* GAEngine.run, "Early stopping": does the loop break at the end of a generation
early_stop(fitness, stagnant, target) ==
    \/ fitness >= target
    \/ stagnant >= max_stagnant_generations

\* a loop that runs one generation more than the budget
budget_used_up_late(gen, budget) == gen >= budget

\* GAEngine.run, for generation in range(max_gens): is gen the last value of
\* the range
budget_used_up(gen, budget) == gen + 1 >= budget

\* GAEngine.run, the rest of the loop body: evaluate the chromosomes that have
\* no fitness, update the best, record it, stop early or replace the
\* population and go on while the range lasts
Run_EvaluateGeneration ==
    /\ pc = "evaluate"
    /\ LET evaluated == [i \in DOMAIN new_population |->
                            IF new_population[i].fitness = NoFitness
                            THEN evaluate(new_population[i], teacher_constraints)
                            ELSE new_population[i]]
           updated == update_best(evaluated, best_chromosome, best_fitness,
                                  stagnant_generations)
       IN /\ new_population' = evaluated
          /\ best_chromosome' = updated.best_chromosome
          /\ best_fitness' = updated.best_fitness
          /\ stagnant_generations' = updated.stagnant_generations
          /\ best_fitness_history' = Append(best_fitness_history, best_fitness')
          /\ IF early_stop(best_fitness', stagnant_generations', min_fit)
             THEN pc' = "done" /\ UNCHANGED <<population, generation>>
             ELSE /\ population' = evaluated
                  /\ IF budget_used_up(generation, max_gens)
                     THEN pc' = "done" /\ UNCHANGED generation
                     ELSE pc' = "next_generation" /\ generation' = generation + 1
    /\ UNCHANGED <<sessions, locked_assignments, teacher_constraints, max_gens, min_fit,
                rooms_df, heap, frame, random_seed, rng, initializer_rooms, run_results,
                   validation>>

Next ==
    \/ generate_timetable_validate
    \/ Run_Initialize
    \/ Run_CreateNextGeneration
    \/ Run_EvaluateGeneration

Spec == Init /\ [][Next]_vars

-----------------------------------------------------------------------------
(* The operators on their own: a population of the initializer, then one   *)
(* chromosome taken from it or bred from two of it, put through mutate,    *)
(* repair, copy and evaluate in any order.                                 *)

\* the population_size create_population is given: the smallest with a
\* heuristic chromosome in it
OpsPopulationSize == 5

OpsInputs ==
    { \* a lock at a time that is no allowed start time
      Inputs(SessionsTheory, << Lock("S1", "Monday", <<9, 0>>, NoRoom, "time_only") >>,
             <<>>, 1, min_acceptable_fitness * 1000),
      \* a full lock that names its room, a blocked slot of the other teacher
      Inputs(SessionsRoom, << Lock("S1", "Tuesday", <<8, 0>>, 1, "full_lock") >>,
             << BlockedSlot(2, "Tuesday", <<8, 0>>, <<9, 0>>, TRUE) >>,
             1, min_acceptable_fitness * 1000),
      \* a full lock that names no room, a day-off of the lab's teacher
      Inputs(SessionsLab, << Lock("S1", "Monday", <<8, 0>>, NoRoom, "full_lock") >>,
             << DayOff(2, <<"Monday">>, TRUE) >>, 1, min_acceptable_fitness * 1000),
      \* a lab session of 120 minutes next to a time-only lock
      Inputs(SessionsShortLab, << Lock("S1", "Tuesday", <<8, 0>>, NoRoom, "time_only") >>,
             <<>>, 1, min_acceptable_fitness * 1000),
      \* two time-only locks at one time, for sessions that share nothing but
      \* the one theory room they are then given
      Inputs(SessionsRoom, << Lock("S1", "Tuesday", <<8, 0>>, NoRoom, "time_only"),
                              Lock("S4", "Tuesday", <<8, 0>>, NoRoom, "time_only") >>,
             <<>>, 1, min_acceptable_fitness * 1000) }

InitOps ==
    /\ pc = "ops_create"
    /\ Unseeded
    /\ \E in \in OpsInputs :
          /\ sessions = in.sessions
          /\ locked_assignments = in.locked_assignments
          /\ teacher_constraints = in.teacher_constraints
          /\ max_gens = in.generations
          /\ min_fit = in.min_acceptable_fitness
    /\ NoRun

OpsUnchanged ==
    UNCHANGED <<sessions, locked_assignments, teacher_constraints, max_gens, min_fit,
                rooms_df, heap, frame, random_seed, rng, initializer_rooms, run_results,
                best_chromosome, best_fitness, stagnant_generations, generation,
                best_fitness_history, validation>>

\* PopulationInitializer.create_population
Ops_create_population ==
    /\ pc = "ops_create"
    /\ population' \in create_population(sessions, locked_assignments, OpsPopulationSize,
                                        heuristic_seed_ratio_percent)
    /\ pc' = "ops_select"
    /\ UNCHANGED new_population
    /\ OpsUnchanged

\* one chromosome of the population is worked on
Ops_select ==
    /\ pc = "ops_select"
    /\ \E i \in DOMAIN population : new_population' = <<population[i]>>
    /\ population' = <<>>
    /\ pc' = "ops"
    /\ OpsUnchanged

\* GeneticOperators.crossover on two chromosomes of the population: either
\* offspring is worked on
Ops_crossover ==
    /\ pc = "ops_select"
    /\ \E i, j \in DOMAIN population, method \in {"day_based", "uniform"} :
          \E children \in crossover(population[i], population[j], method) :
             \E k \in 1..2 : new_population' = <<children[k]>>
    /\ population' = <<>>
    /\ pc' = "ops"
    /\ OpsUnchanged

\* GeneticOperators.mutate
Ops_mutate ==
    /\ pc = "ops"
    /\ \E mutated \in mutate(new_population[1]) : new_population' = <<mutated>>
    /\ UNCHANGED <<pc, population>>
    /\ OpsUnchanged

\* RepairMechanism.repair, whatever it returns
Ops_repair ==
    /\ pc = "ops"
    /\ \E r \in repair(new_population[1]) : new_population' = <<r[1]>>
    /\ UNCHANGED <<pc, population>>
    /\ OpsUnchanged

\* Chromosome.copy
Ops_copy ==
    /\ pc = "ops"
    /\ new_population' = <<copy(new_population[1])>>
    /\ UNCHANGED <<pc, population>>
    /\ OpsUnchanged

\* the length of conflict_details from which a chromosome is evaluated no more
MaxConflictDetails == 3

\* FitnessEvaluator.evaluate
Ops_evaluate ==
    /\ pc = "ops"
    /\ Len(new_population[1].conflict_details) < MaxConflictDetails
    /\ new_population' = <<evaluate(new_population[1], teacher_constraints)>>
    /\ UNCHANGED <<pc, population>>
    /\ OpsUnchanged

NextOps ==
    \/ Ops_create_population
    \/ Ops_select
    \/ Ops_crossover
    \/ Ops_mutate
    \/ Ops_repair
    \/ Ops_copy
    \/ Ops_evaluate

SpecOps == InitOps /\ [][NextOps]_vars

-----------------------------------------------------------------------------
(* The validator on its own: validate() on lists of locked assignments and *)
(* teacher constraints.                                                    *)

\* the longest list of locked assignments
MaxLocks == 2

\* the locked assignments: a key that may name no session, a start time that
\* may be late enough for the session to end after midnight, a full lock when
\* a room is named
ValLocks ==
    {Lock(k, d, t, r, IF r = NoRoom THEN "time_only" ELSE "full_lock") :
        k \in {"S1", "S2", "S3"}, d \in Range(working_days),
        t \in {<<8, 0>>, <<9, 30>>, <<23, 0>>}, r \in {NoRoom, 1}}

ValConstraints ==
    { <<>>,
      << DayOff(1, <<"Monday">>, FALSE) >>,
      << DayOff(1, <<"Monday">>, TRUE) >>,
      << BlockedSlot(1, "Tuesday", <<8, 0>>, <<9, 0>>, FALSE) >>,
      << BlockedSlot(1, "Tuesday", <<8, 0>>, <<9, 0>>, TRUE) >> }

InitVal ==
    /\ pc = "val"
    /\ Unseeded
    /\ sessions \in {SessionsTheory, SessionsLab}
    /\ locked_assignments \in UNION {[1..n -> ValLocks] : n \in 0..MaxLocks}
    /\ teacher_constraints \in ValConstraints
    /\ max_gens = 1
    /\ min_fit = min_acceptable_fitness * 1000
    /\ NoRun

\* PreGAValidator.validate
Val_validate ==
    /\ pc = "val"
    /\ validation' = validate(sessions, locked_assignments, teacher_constraints)
    /\ pc' = "validated"
    /\ UNCHANGED <<sessions, locked_assignments, teacher_constraints, max_gens, min_fit,
                rooms_df, heap, frame, random_seed, rng, initializer_rooms, run_results,
                   population, new_population, best_chromosome, best_fitness,
                   stagnant_generations, generation, best_fitness_history>>

NextVal == Val_validate

SpecVal == InitVal /\ [][NextVal]_vars

-----------------------------------------------------------------------------
(* The engine under a seed: GAEngine(..., random_seed=seed).run(), and     *)
(* after it has returned a second run with the same seed, on the same      *)
(* engine or on one that is newly constructed with the same arguments.     *)

\* the population_size argument of the seeded runs: the smallest whose
\* population holds a heuristic chromosome
SeedPopulationSize == 5

\* the seeds are 1..MaxSeed
MaxSeed == 8

\* the runs that are made with one seed
MaxRuns == 2

\* a catalogue with two lab rooms
SeedRooms ==
    << [Room_ID |-> 1, Room_Code |-> "SB 001", Room_Type |-> "Theory"],
       [Room_ID |-> 2, Room_Code |-> "AB Lab1", Room_Type |-> "Lab"],
       [Room_ID |-> 3, Room_Code |-> "AB Lab2", Room_Type |-> "Lab"] >>

SeedInputs ==
    { \* a theory session and a lab, nothing locked
      Inputs(SessionsLab, <<>>, <<>>, 2, min_acceptable_fitness * 1000),
      \* the theory session locked in time
      Inputs(SessionsLab, << Lock("S1", "Tuesday", <<8, 0>>, NoRoom, "time_only") >>,
             <<>>, 2, min_acceptable_fitness * 1000) }

InitSeed ==
    /\ pc = "run"
    /\ rooms_df = SeedRooms
    /\ heap = NoObjects
    /\ frame = NoFrame
    /\ random_seed \in 1..MaxSeed
    /\ rng = 0
    /\ initializer_rooms = NewInitializerRooms
    /\ run_results = <<>>
    /\ \E in \in SeedInputs :
          /\ sessions = in.sessions
          /\ locked_assignments = in.locked_assignments
          /\ teacher_constraints = in.teacher_constraints
          /\ max_gens = in.generations
          /\ min_fit = in.min_acceptable_fitness
    /\ NoRun

\* GAEngine.run up to the evolution loop, with random.seed(self.random_seed)
Seed_Initialize ==
    /\ pc = "run"
    /\ random_seed # NoSeed
    /\ \E created \in {seeded_create_population(
                            [rng |-> seed_random(random_seed),
                             lab_rooms |-> initializer_rooms.lab_rooms,
                             theory_rooms |-> initializer_rooms.theory_rooms],
                            sessions, locked_assignments, SeedPopulationSize,
                            heuristic_seed_ratio_percent)} :
          /\ population' = [i \in DOMAIN created.value |->
                               evaluate(created.value[i], teacher_constraints)]
          /\ best_chromosome' = FirstFittest(population')
          /\ best_fitness' = FitnessOr0(best_chromosome')
          /\ rng' = created.ini.rng
          /\ initializer_rooms' = [lab_rooms |-> created.ini.lab_rooms,
                                   theory_rooms |-> created.ini.theory_rooms]
    /\ stagnant_generations' = 0
    /\ generation' = 0
    /\ pc' = "next_generation"
    /\ UNCHANGED <<sessions, locked_assignments, teacher_constraints, max_gens, min_fit,
                   rooms_df, heap, frame, random_seed, run_results,
                   new_population, best_fitness_history, validation>>

\* GAEngine.run, the evolution loop: new_population = _create_next_generation(...)
Seed_CreateNextGeneration ==
    /\ pc = "next_generation"
    /\ \E created \in {seeded_create_next_generation(rng, population, generation)} :
          /\ new_population' = created.value
          /\ rng' = created.rng
    /\ pc' = "evaluate"
    /\ UNCHANGED <<sessions, locked_assignments, teacher_constraints, max_gens, min_fit,
                   rooms_df, heap, frame, random_seed, initializer_rooms, run_results,
                   population, best_chromosome, best_fitness, stagnant_generations,
                   generation, best_fitness_history, validation>>

\* GAEngine.run, the result dict: the entries that describe the best chromosome
RunResult ==
    [best_chromosome |-> best_chromosome,
     best_fitness |-> best_fitness,
     is_feasible |-> best_chromosome.is_feasible,
     hard_violations |-> best_chromosome.hard_violations]

\* GAEngine.run returns its result
Seed_Return ==
    /\ pc = "done"
    /\ run_results' = Append(run_results, RunResult)
    /\ pc' = "returned"
    /\ UNCHANGED <<sessions, locked_assignments, teacher_constraints, max_gens, min_fit,
                   rooms_df, heap, frame, random_seed, rng, initializer_rooms,
                   population, new_population, best_chromosome, best_fitness,
                   stagnant_generations, generation, best_fitness_history, validation>>

\* the locals of a run that is about to start
NewRun ==
    /\ population' = <<>>
    /\ new_population' = <<>>
    /\ best_chromosome' = Chromosome(<<>>)
    /\ best_fitness' = 0
    /\ stagnant_generations' = 0
    /\ generation' = 0

\* run is called again on the engine that has returned: its initializer and
\* its best_fitness_history are the ones the first run left
Seed_RunAgain ==
    /\ pc = "returned"
    /\ Len(run_results) < MaxRuns
    /\ NewRun
    /\ pc' = "run"
    /\ UNCHANGED <<sessions, locked_assignments, teacher_constraints, max_gens, min_fit,
                   rooms_df, heap, frame, random_seed, rng, initializer_rooms, run_results,
                   best_fitness_history, validation>>

\* an engine is constructed with the same arguments and run
Seed_RunFreshEngine ==
    /\ pc = "returned"
    /\ Len(run_results) < MaxRuns
    /\ NewRun
    /\ initializer_rooms' = NewInitializerRooms
    /\ best_fitness_history' = <<>>
    /\ pc' = "run"
    /\ UNCHANGED <<sessions, locked_assignments, teacher_constraints, max_gens, min_fit,
                   rooms_df, heap, frame, random_seed, rng, run_results, validation>>

NextSeed ==
    \/ Seed_Initialize
    \/ Seed_CreateNextGeneration
    \/ Run_EvaluateGeneration
    \/ Seed_Return
    \/ Seed_RunAgain
    \/ Seed_RunFreshEngine

SpecSeed == InitSeed /\ [][NextSeed]_vars

-----------------------------------------------------------------------------
(* The objects of a run by identity.  A Gene is an object that repair      *)
(* writes to in place, and chromosome.genes is a list object that mutate   *)
(* assigns into.  heap.genes holds the Gene objects made so far and        *)
(* heap.lists the lists of genes, an object being named by its index.  A   *)
(* chromosome is here its fields with, for genes, the index of its list:   *)
(* two chromosomes share their genes when they name the same list or when  *)
(* their lists name the same Gene.  The operators below are the ones above *)
(* with the objects they make and the objects they write to.               *)

\* the genes a chromosome has: the Gene objects its list names
GenesOf(h, chromosome) ==
    [i \in DOMAIN h.lists[chromosome.genes] |-> h.genes[h.lists[chromosome.genes][i]]]

\* the chromosome as a value
Deref(h, chromosome) == [chromosome EXCEPT !.genes = GenesOf(h, chromosome)]

\* a new Gene object for each gene of the value, in a new list: [heap, value]
Allocate(h, chromosome) ==
    LET n == Len(h.genes)
    IN [heap |-> [genes |-> h.genes \o chromosome.genes,
                  lists |-> Append(h.lists, [i \in DOMAIN chromosome.genes |-> n + i])],
        value |-> [chromosome EXCEPT !.genes = Len(h.lists) + 1]]

\* a copy that hands the list of the chromosome on: Chromosome(self.genes)
heap_copy_shared(h, chromosome) ==
    [heap |-> h,
     value |-> [copy(Deref(h, chromosome)) EXCEPT !.genes = chromosome.genes]]

\* Chromosome.copy: a Gene(...) for each gene, in a list comprehension
heap_copy(h, chromosome) == Allocate(h, copy(Deref(h, chromosome)))

\* GeneticOperators.crossover as the engine calls it: each child is a
\* Chromosome on a new list of deepcopy(gene)
heap_crossover(h, parent1, parent2) ==
    {LET First(a) == [heap |-> Allocate(a.heap, children[2]).heap,
                      child1 |-> a.value,
                      child2 |-> Allocate(a.heap, children[2]).value]
     IN First(Allocate(h, children[1])) :
        children \in crossover(Deref(h, parent1), Deref(h, parent2), "day_based")}

\* GeneticOperators.mutate: mutated = chromosome.copy(), then
\* mutated.genes[i] = the deepcopy a mutation has changed, for the genes that
\* one is drawn for
heap_mutate(h, chromosome) ==
    LET Stored(copied, genes) ==
            LET list == copied.heap.lists[copied.value.genes]
                changed == {i \in DOMAIN genes : genes[i] # copied.heap.genes[list[i]]}
                Rank(i) == Cardinality({j \in changed : j <= i})
                n == Len(copied.heap.genes)
            IN [heap |->
                  [genes |-> copied.heap.genes
                             \o [r \in 1..Cardinality(changed) |->
                                   genes[CHOOSE i \in changed : Rank(i) = r]],
                   lists |-> [copied.heap.lists EXCEPT ![copied.value.genes] =
                                [i \in DOMAIN list |->
                                    IF i \in changed THEN n + Rank(i) ELSE list[i]]]],
                value |-> copied.value]
    IN {Stored(heap_copy(h, chromosome), mutated.genes) :
           mutated \in mutate(Deref(h, chromosome))}

\* RepairMechanism.repair: gene.restore_lock(), gene.update_time(...),
\* gene.update_room(...) and the assignments to gene.duration_minutes write to
\* the Gene objects of chromosome.genes; [heap, ok]
heap_repair(h, chromosome) ==
    LET list == h.lists[chromosome.genes]
    IN {[heap |-> [h EXCEPT !.genes =
                     [a \in DOMAIN h.genes |->
                         IF \E i \in DOMAIN list : list[i] = a
                         THEN r[1].genes[CHOOSE i \in DOMAIN list : list[i] = a]
                         ELSE h.genes[a]]],
         ok |-> r[2]] :
           r \in repair(Deref(h, chromosome))}

\* FitnessEvaluator.evaluate: it reads the genes and sets the other fields
heap_evaluate(h, chromosome) ==
    [evaluate(Deref(h, chromosome), teacher_constraints) EXCEPT !.genes = chromosome.genes]

\* the population_size argument of the runs with objects: the smallest that
\* leaves room for both children of a turn
HeapPopulationSize == 3

\* the generations argument of the runs with objects
HeapGenerations == 1

HeapInputs ==
    { Inputs(SessionsTheory, << Lock("S1", "Tuesday", <<8, 0>>, NoRoom, "time_only") >>,
             <<>>, HeapGenerations, min_acceptable_fitness * 1000) }

InitHeap ==
    /\ pc = "heap_run"
    /\ rooms_df = RoomCatalogue
    /\ heap = NoObjects
    /\ frame = NoFrame
    /\ random_seed = NoSeed
    /\ rng = 0
    /\ initializer_rooms = NewInitializerRooms
    /\ run_results = <<>>
    /\ \E in \in HeapInputs :
          /\ sessions = in.sessions
          /\ locked_assignments = in.locked_assignments
          /\ teacher_constraints = in.teacher_constraints
          /\ max_gens = in.generations
          /\ min_fit = in.min_acceptable_fitness
    /\ NoRun

HeapUnchanged ==
    UNCHANGED <<sessions, locked_assignments, teacher_constraints, max_gens, min_fit,
                rooms_df, random_seed, rng, initializer_rooms, run_results, validation>>

RECURSIVE AllocateAll(_, _, _)
\* the chromosomes of a new population as objects, one after the other
AllocateAll(h, created, refs) ==
    IF Len(refs) = Len(created) THEN [heap |-> h, value |-> refs]
    ELSE LET Next1(a) == AllocateAll(a.heap, created, Append(refs, a.value))
         IN Next1(Allocate(h, created[Len(refs) + 1]))

\* GAEngine.run: the initial population, its evaluation, and the best
\* chromosome, which is the object of the population itself
Heap_Initialize ==
    /\ pc = "heap_run"
    /\ \E created \in create_population(sessions, locked_assignments, HeapPopulationSize,
                                        heuristic_seed_ratio_percent) :
          LET made == AllocateAll(heap, created, <<>>)
          IN /\ heap' = made.heap
             /\ population' = [i \in DOMAIN made.value |->
                                  heap_evaluate(made.heap, made.value[i])]
    /\ best_chromosome' = FirstFittest(population')
    /\ best_fitness' = FitnessOr0(best_chromosome')
    /\ stagnant_generations' = 0
    /\ generation' = 0
    /\ pc' = "heap_elite"
    /\ UNCHANGED <<new_population, frame, best_fitness_history>>
    /\ HeapUnchanged

\* _create_next_generation: new_population.extend([c.copy() for c in elite])
Heap_Elitism ==
    /\ pc = "heap_elite"
    /\ LET elite == SubSeq(SortByFitness(population), 1, elite_count(population))
           RECURSIVE Copies(_, _)
           Copies(h, refs) ==
               IF Len(refs) = Len(elite) THEN [heap |-> h, value |-> refs]
               ELSE LET Next1(a) == Copies(a.heap, Append(refs, a.value))
                    IN Next1(heap_copy(h, elite[Len(refs) + 1]))
           Copied(made) == heap' = made.heap /\ new_population' = made.value
       IN Copied(Copies(heap, <<>>))
    /\ pc' = "heap_select"
    /\ UNCHANGED <<population, best_chromosome, best_fitness, stagnant_generations,
                   generation, best_fitness_history, frame>>
    /\ HeapUnchanged

\* a turn of the while loop: two parents by tournament, which are objects of
\* the population, and their children by crossover or by copy()
Heap_SelectAndCross ==
    /\ pc = "heap_select"
    /\ \E parent1, parent2 \in tournament_selection(population) :
          \/ \E made \in heap_crossover(heap, parent1, parent2) :
                /\ heap' = made.heap
                /\ frame' = [parent1 |-> parent1, parent2 |-> parent2,
                             child1 |-> made.child1, child2 |-> made.child2]
          \/ LET Second(a, b) ==
                    /\ heap' = b.heap
                    /\ frame' = [parent1 |-> parent1, parent2 |-> parent2,
                                 child1 |-> a.value, child2 |-> b.value]
                 First(a) == Second(a, heap_copy(a.heap, parent2))
             IN First(heap_copy(heap, parent1))
    /\ pc' = "heap_mutate"
    /\ UNCHANGED <<population, new_population, best_chromosome, best_fitness,
                   stagnant_generations, generation, best_fitness_history>>
    /\ HeapUnchanged

\* child1 = self.operators.mutate(child1, generation), and so child2
Heap_Mutate ==
    /\ pc = "heap_mutate"
    /\ \E first \in heap_mutate(heap, frame.child1) :
          \E second \in heap_mutate(first.heap, frame.child2) :
             /\ heap' = second.heap
             /\ frame' = [frame EXCEPT !.child1 = first.value, !.child2 = second.value]
    /\ pc' = "heap_repair1"
    /\ UNCHANGED <<population, new_population, best_chromosome, best_fitness,
                   stagnant_generations, generation, best_fitness_history>>
    /\ HeapUnchanged

\* what repairing a child in place and appending it, or a copy of its parent,
\* leaves: the heap and the new population
heap_append(h, new_pop, child, parent) ==
    {IF r.ok THEN [heap |-> r.heap, value |-> Append(new_pop, child)]
     ELSE [heap |-> heap_copy(r.heap, parent).heap,
           value |-> Append(new_pop, heap_copy(r.heap, parent).value)] :
        r \in heap_repair(h, child)}

\* if self.repair.repair(child1): append child1, else parent1.copy()
Heap_RepairFirst ==
    /\ pc = "heap_repair1"
    /\ \E made \in heap_append(heap, new_population, frame.child1, frame.parent1) :
          /\ heap' = made.heap
          /\ new_population' = made.value
    /\ pc' = IF Len(new_population') < Len(population) THEN "heap_repair2"
             ELSE "heap_evaluate"
    /\ UNCHANGED <<population, best_chromosome, best_fitness, stagnant_generations,
                   generation, best_fitness_history, frame>>
    /\ HeapUnchanged

\* if len(new_population) < len(population): the same for child2
Heap_RepairSecond ==
    /\ pc = "heap_repair2"
    /\ \E made \in heap_append(heap, new_population, frame.child2, frame.parent2) :
          /\ heap' = made.heap
          /\ new_population' = made.value
    /\ pc' = IF Len(new_population') < Len(population) THEN "heap_select"
             ELSE "heap_evaluate"
    /\ UNCHANGED <<population, best_chromosome, best_fitness, stagnant_generations,
                   generation, best_fitness_history, frame>>
    /\ HeapUnchanged

\* run: the evaluation of the new population, the update of the best
\* chromosome with a copy() and the replacement of the population
Heap_EvaluateGeneration ==
    /\ pc = "heap_evaluate"
    /\ LET evaluated == [i \in DOMAIN new_population |->
                            IF new_population[i].fitness = NoFitness
                            THEN heap_evaluate(heap, new_population[i])
                            ELSE new_population[i]]
           generation_best == FirstFittest(evaluated)
           Kept(made) ==
              /\ heap' = made.heap
              /\ best_chromosome' = made.value
              /\ best_fitness' = generation_best.fitness
              /\ stagnant_generations' = 0
       IN /\ IF generation_best.fitness > best_fitness
             THEN Kept(heap_copy(heap, generation_best))
             ELSE /\ stagnant_generations' = stagnant_generations + 1
                  /\ UNCHANGED <<heap, best_chromosome, best_fitness>>
          /\ new_population' = evaluated
    /\ best_fitness_history' = Append(best_fitness_history, best_fitness')
    /\ frame' = NoFrame
    /\ IF early_stop(best_fitness', stagnant_generations', min_fit)
       THEN pc' = "heap_done" /\ UNCHANGED <<population, generation>>
       ELSE /\ population' = new_population'
            /\ IF budget_used_up(generation, max_gens)
               THEN pc' = "heap_done" /\ UNCHANGED generation
               ELSE pc' = "heap_elite" /\ generation' = generation + 1
    /\ HeapUnchanged

NextHeap ==
    \/ Heap_Initialize
    \/ Heap_Elitism
    \/ Heap_SelectAndCross
    \/ Heap_Mutate
    \/ Heap_RepairFirst
    \/ Heap_RepairSecond
    \/ Heap_EvaluateGeneration

SpecHeap == InitHeap /\ [][NextHeap]_vars

-----------------------------------------------------------------------------
(* Properties.                                                             *)

\* every chromosome the state holds
Chromosomes ==
    Range(population) \cup Range(new_population)
    \cup (IF best_chromosome.genes = <<>> THEN {} ELSE {best_chromosome})

SessionKeys == {sessions[i].Session_Key : i \in DOMAIN sessions}

\* C1: the input sessions have pairwise distinct keys, and every chromosome of
\* the initial population and every chromosome that crossover, mutate, repair
\* or copy produces holds exactly one gene for each input session key: no key
\* twice, none missing.
C1_OneGenePerSessionKey ==
    /\ Cardinality(SessionKeys) = Len(sessions)
    /\ \A c \in Chromosomes :
          /\ Len(c.genes) = Len(sessions)
          /\ Keys(c.genes) = SessionKeys

\* an offspring of a crossover is at hand: its genes are not in the order of
\* the sessions, the order every chromosome of the initializer has here
C1_Witness ==
    /\ pc = "ops"
    /\ new_population[1].fitness = NoFitness
    /\ new_population[1].genes[1].session_key # sessions[1].Session_Key

\* C2: every locked gene of every chromosome sits on its locked day at its
\* locked start time, and in its locked room when the lock is a full lock; so
\* every evaluated chromosome has a lock_violations count of 0.
C2_LocksHold ==
    \A c \in Chromosomes :
       /\ \A i \in DOMAIN c.genes :
             LET g == c.genes[i]
             IN g.is_locked =>
                   /\ g.day = g.locked_day
                   /\ g.start_time = g.locked_start_time
                   /\ g.lock_type = "full_lock" => g.room_id = g.locked_room_id
       /\ "lock_violations" \in DOMAIN c.hard_violations
             => c.hard_violations["lock_violations"] = 0

\* an evaluated chromosome with a fully locked gene and a gene that is free
C2_Witness ==
    /\ pc = "ops"
    /\ "lock_violations" \in DOMAIN new_population[1].hard_violations
    /\ \E i, j \in DOMAIN new_population[1].genes :
          /\ new_population[1].genes[i].is_locked
          /\ new_population[1].genes[i].lock_type = "full_lock"
          /\ ~new_population[1].genes[j].is_locked

\* C3: a chromosome that evaluate() has filled in has eleven hard counters; it
\* is feasible exactly when all of them are 0; an infeasible one has fitness 0;
\* a feasible one has the sum of its nine weighted soft scores as fitness, and
\* that is not negative.
C3_EvaluateContract ==
    \A c \in Chromosomes :
       c.hard_violations # EmptyDict =>
          /\ DOMAIN c.hard_violations = HardCategories
          /\ Cardinality(HardCategories) = 11
          /\ c.is_feasible <=> \A k \in HardCategories : c.hard_violations[k] = 0
          /\ ~c.is_feasible => c.fitness = 0
          /\ c.is_feasible =>
                /\ DOMAIN c.soft_scores = SoftCategories
                /\ c.fitness = SumDict(c.soft_scores)
                /\ c.fitness >= 0

\* evaluate() has found a chromosome feasible and given it a fitness above 0
C3_Witness ==
    /\ pc = "ops"
    /\ new_population[1].hard_violations # EmptyDict
    /\ new_population[1].is_feasible
    /\ new_population[1].fitness > 0

\* [start, start + duration) of two assignments on one day meet
IntervalsOverlap(start1, duration1, start2, duration2) ==
    /\ time_to_minutes(start1) < time_to_minutes(start2) + duration2
    /\ time_to_minutes(start2) < time_to_minutes(start1) + duration1

\* two genes of one day that share a teacher, a room or a section and overlap
GenesClash(g1, g2) ==
    /\ g1.day = g2.day
    /\ \/ g1.teacher_id = g2.teacher_id
       \/ g1.room_id = g2.room_id
       \/ g1.section_id = g2.section_id
    /\ IntervalsOverlap(g1.start_time, g1.duration_minutes,
                        g2.start_time, g2.duration_minutes)

\* C4: when run returns is_feasible = true, no two distinct genes of the best
\* chromosome it returns are on one day, share a teacher, a room or a section
\* and overlap.
C4_FeasibleBestHasNoOverlap ==
    (pc = "done" /\ best_chromosome.is_feasible) =>
        \A i, j \in DOMAIN best_chromosome.genes :
            i # j => ~GenesClash(best_chromosome.genes[i], best_chromosome.genes[j])

\* run has returned a feasible best chromosome, found after the first
\* generation, with two genes of one teacher on one day
C4_Witness ==
    /\ pc = "done"
    /\ best_chromosome.is_feasible
    /\ best_fitness > best_fitness_history[1]
    /\ \E i, j \in DOMAIN best_chromosome.genes :
          /\ i # j
          /\ best_chromosome.genes[i].day = best_chromosome.genes[j].day
          /\ best_chromosome.genes[i].teacher_id = best_chromosome.genes[j].teacher_id

KnownLockIndexes ==
    {i \in DOMAIN locked_assignments :
        HasSession(sessions, locked_assignments[i].session_key)}

LockSession(i) == session_lookup(sessions, locked_assignments[i].session_key)

LocksOverlap(i, j) ==
    /\ locked_assignments[i].day = locked_assignments[j].day
    /\ IntervalsOverlap(locked_assignments[i].start_time, LockSession(i).Duration_Minutes,
                        locked_assignments[j].start_time, LockSession(j).Duration_Minutes)

HasError(error_type) ==
    \E e \in DOMAIN validation.errors : validation.errors[e].error_type = error_type

\* C6: for every two locked assignments that name sessions of one teacher on
\* one day, validate() reports a hard locked_teacher_conflict that names both
\* session keys, and is_valid = false, exactly when the two intervals
\* [start, start + duration) overlap.
C6_TeacherConflictExactlyOnOverlap ==
    pc = "validated" =>
        \A i, j \in KnownLockIndexes :
            (/\ i < j
             /\ LockSession(i).Teacher_ID = LockSession(j).Teacher_ID
             /\ locked_assignments[i].day = locked_assignments[j].day)
            => LET reported ==
                       \E e \in DOMAIN validation.errors :
                           /\ validation.errors[e].error_type = "locked_teacher_conflict"
                           /\ validation.errors[e].severity = "hard"
                           /\ validation.errors[e].keys =
                                  {locked_assignments[i].session_key,
                                   locked_assignments[j].session_key}
               IN /\ reported <=> LocksOverlap(i, j)
                  /\ reported => ~validation.is_valid

\* C7: validation passes only if no two locked sessions that share a teacher,
\* a room or a section are pinned to overlapping intervals of one day.
C7_ValidLocksCanAllHold ==
    (pc = "validated" /\ validation.is_valid) =>
        \A i, j \in KnownLockIndexes :
            (/\ i < j
             /\ \/ LockSession(i).Teacher_ID = LockSession(j).Teacher_ID
                \/ LockSession(i).Section_ID = LockSession(j).Section_ID
                \/ /\ locked_assignments[i].room_id # NoRoom
                   /\ locked_assignments[i].room_id = locked_assignments[j].room_id)
            => ~LocksOverlap(i, j)

\* C8: when no teacher constraint is hard, validate() reports neither a
\* locked_dayoff_conflict nor a locked_blocked_slot_conflict.
C8_OnlyHardConstraintsConflict ==
    (/\ pc = "validated"
     /\ \A c \in DOMAIN teacher_constraints : ~teacher_constraints[c].is_hard)
    => /\ ~HasError("locked_dayoff_conflict")
       /\ ~HasError("locked_blocked_slot_conflict")

IsNonDecreasing(s) == \A i, j \in DOMAIN s : i <= j => s[i] <= s[j]

StopCondition(gen, budget, fitness, target, stagnant) ==
    \/ gen + 1 >= budget
    \/ fitness >= target
    \/ stagnant >= max_stagnant_generations

\* how far a run has come: every step of run moves on, by a stage or by a
\* generation
Progress ==
    2 * generation
    + (CASE pc = "validate" -> 0
         [] pc = "run" -> 1
         [] pc = "next_generation" -> 2
         [] pc = "evaluate" -> 3
         [] OTHER -> 4)

\* C10: run terminates: each of its steps moves on towards a bound that the
\* budget sets, so that no run goes on for ever. Its loop ends at the
\* end of a generation exactly when the budget is used up, the best fitness has
\* reached min_acceptable_fitness or the stagnation cap is reached, which makes
\* it the first such generation. The generation count it reports,
\* generation + 1, is never above the budget.
C10_RunTerminatesAtFirstStop ==
    /\ [][Progress' > Progress]_vars
    /\ [](Progress <= 2 * max_gens + 2)
    /\ [][pc = "evaluate" =>
            (pc' = "done" <=> StopCondition(generation, max_gens, best_fitness', min_fit,
                                            stagnant_generations'))]_vars
    /\ [](generation + 1 <= max_gens)

\* run has gone through more than one generation and stopped on stagnation
\* before the budget was used up
C10_Witness ==
    /\ pc = "done"
    /\ generation >= 1
    /\ generation + 1 < max_gens
    /\ best_fitness < min_fit
    /\ stagnant_generations >= max_stagnant_generations

\* C11: the run ends in its result whatever the violations are, and when the
\* best chromosome of the result is infeasible its flag says so and its
\* hard_violations are the evaluator's counters for its own genes, one of
\* them at least above zero
C11_InfeasibleBestCarriesItsCounters ==
    (pc = "done"
     /\ check_hard_constraints(best_chromosome.genes, teacher_constraints) # ZeroViolations)
        => /\ RunResult.is_feasible = FALSE
           /\ RunResult.hard_violations =
                 check_hard_constraints(best_chromosome.genes, teacher_constraints)
           /\ \E category \in HardCategories : RunResult.hard_violations[category] > 0

\* a run of at least one generation that ends with an infeasible best
C11_Witness ==
    /\ pc = "done"
    /\ generation >= 1
    /\ ~best_chromosome.is_feasible
    /\ DOMAIN best_chromosome.hard_violations = HardCategories
    /\ \E category \in HardCategories : best_chromosome.hard_violations[category] > 0

\* the pre-run validator finds no error in the locks of the run
LocksPassValidation ==
    validate(sessions, locked_assignments, teacher_constraints).is_valid

\* C13: with locks that pass the pre-run validation, every gene of every
\* chromosome of the initial population, and of every chromosome that
\* crossover, mutation or repair returns, ends at day_end_time or before
C13_GenesEndInsideDay ==
    LocksPassValidation
        => \A c \in Chromosomes : \A i \in DOMAIN c.genes :
              c.genes[i].start_time # NoTime
                 => time_to_minutes(c.genes[i].end_time) <= time_to_minutes(day_end_time)

\* C14: in every chromosome that the initializer, crossover, mutation,
\* repair, lock restore or copy returns, each gene has the duration_minutes
\* of its input session, lab or theory, and an end_time that is its
\* start_time plus that duration
C14_DurationKeptAndEndConsistent ==
    \A c \in Chromosomes : \A i \in DOMAIN c.genes :
        LET gene == c.genes[i]
        IN /\ gene.duration_minutes =
                 session_lookup(sessions, gene.session_key).Duration_Minutes
           /\ gene.start_time # NoTime
                 => time_to_minutes(gene.end_time) =
                       time_to_minutes(gene.start_time) + gene.duration_minutes

\* the chromosomes that one mutation or one repair of the chromosome can return
MutatedOrRepaired(chromosome) ==
    mutate(chromosome) \cup {r[1] : r \in repair(chromosome)}

\* C15: for the chromosome in hand, every mutation and every repair leaves
\* day and start_time of each locked gene alone and the room of each fully
\* locked gene too, while for each time-only locked gene some mutation or
\* repair returns it in another room
C15_TimeOnlyLockFreesTheRoom ==
    pc = "ops"
        => LET chromosome == new_population[1]
           IN \A i \in DOMAIN chromosome.genes :
                 LET gene == chromosome.genes[i]
                 IN gene.is_locked
                       => /\ \A after \in MutatedOrRepaired(chromosome) :
                                /\ after.genes[i].day = gene.day
                                /\ after.genes[i].start_time = gene.start_time
                                /\ gene.lock_type = "full_lock"
                                      => after.genes[i].room_id = gene.room_id
                          /\ gene.lock_type = "time_only"
                                => \E after \in MutatedOrRepaired(chromosome) :
                                      after.genes[i].room_id # gene.room_id

\* C16: a run on an empty session list creates and evaluates no population
\* and executes no generation: it goes from its start to its result with
\* nothing but the no-op result
C16_EmptyInputIsNoOp ==
    sessions = <<>>
        => /\ population = <<>>
           /\ new_population = <<>>
           /\ generation = 0
           /\ best_fitness_history = <<>>
           /\ pc \in {"validate", "run", "done"}

\* the population sizes and the heuristic ratios, in percent, that
\* create_population is tried with
MaxPopulationSize == 3

HeuristicRatios == {0, 20, 50, 100}

\* C17: create_population returns exactly size chromosomes for every size from
\* 0 on and every heuristic ratio from 0 to 1, and every population the loop
\* builds is as long as the population it replaces
C17_PopulationSizeKept ==
    /\ pc = "run"
          => \A size \in 0..MaxPopulationSize : \A ratio_percent \in HeuristicRatios :
                \A created \in create_population(sessions, locked_assignments, size,
                                                  ratio_percent) :
                   Len(created) = size
    /\ population # <<>> => Len(population) = population_size
    /\ new_population # <<>> => Len(new_population) = Len(population)

\* a generation built from an elite and a child has replaced the initial
\* population
C17_Witness ==
    /\ pc = "evaluate"
    /\ generation >= 1
    /\ Len(new_population) = population_size
    /\ Len(population) = population_size

\* the times of day slots_overlap is tried on
TimePoints == {<<0, 30>>, <<8, 0>>, <<9, 30>>, <<10, 30>>, <<12, 0>>, <<23, 0>>}

\* the second gene starts on the day and at the minute the first one ends
Touching(g1, g2) ==
    /\ g1.start_time # NoTime /\ g2.start_time # NoTime
    /\ g1.day = g2.day
    /\ g1.end_time = g2.start_time

\* the lock that would hold the gene where it is
LockOf(gene) == Lock(gene.session_key, gene.day, gene.start_time, gene.room_id, "full_lock")

\* the gene ends where a blocked window of its day starts and reaches no
\* other window of that day
TouchesBlockedWindow(gene) ==
    /\ gene.start_time # NoTime
    /\ \E i \in DOMAIN blocked_windows(gene.day) :
          gene.end_time = blocked_windows(gene.day)[i][1]
    /\ \A i \in DOMAIN blocked_windows(gene.day) :
          \/ time_to_minutes(gene.end_time) <= time_to_minutes(blocked_windows(gene.day)[i][1])
          \/ time_to_minutes(blocked_windows(gene.day)[i][2]) <= time_to_minutes(gene.start_time)

\* C18: slots_overlap gives the same answer with its two ranges swapped and
\* false for two ranges that only touch; two genes of which one ends when the
\* other starts are an overlap for neither the evaluator, the repair, the
\* initializer nor the validator, and a gene that ends when a blocked window
\* starts is not blocked
C18_TouchingIsNoOverlap ==
    /\ pc = "ops_create"
          => \A s1, e1, s2, e2 \in TimePoints :
                /\ slots_overlap(s1, e1, s2, e2) = slots_overlap(s2, e2, s1, e1)
                /\ ~slots_overlap(s1, e1, e1, e2)
                /\ ~slots_overlap(e1, e2, s1, e1)
    /\ \A c \in Chromosomes : \A i, j \in DOMAIN c.genes :
          Touching(c.genes[i], c.genes[j])
             => LET g1 == c.genes[i]
                    g2 == c.genes[j]
                IN /\ \A resource_type \in {"teacher", "room", "section"} :
                         /\ <<i, j>> \notin OverlapPairs(c.genes, resource_type)
                         /\ <<j, i>> \notin OverlapPairs(c.genes, resource_type)
                         /\ <<i, j>> \notin Range(find_resource_conflicts(c.genes, resource_type))
                         /\ <<j, i>> \notin Range(find_resource_conflicts(c.genes, resource_type))
                         /\ ~has_overlap(<<g1>>, resource_type, ResourceOf(g2, resource_type),
                                         g2.day, g2.start_time, g2.end_time)
                         /\ ~has_overlap(<<g2>>, resource_type, ResourceOf(g1, resource_type),
                                         g1.day, g1.start_time, g1.end_time)
                   /\ Len(c.genes) = 2
                         => ~HasConflictAt(c.genes, i, g1.day, g1.start_time, g1.room_id)
                   /\ g1.duration_minutes =
                         session_lookup(sessions, g1.session_key).Duration_Minutes
                         => /\ validate_locked_assignment_conflicts(
                                   sessions, <<LockOf(g1), LockOf(g2)>>) = <<>>
                            /\ validate_room_lock_conflicts(
                                   sessions, <<LockOf(g1), LockOf(g2)>>) = <<>>
    /\ \A c \in Chromosomes : \A i \in DOMAIN c.genes :
          TouchesBlockedWindow(c.genes[i])
             => /\ ~is_blocked(c.genes[i].day, c.genes[i].start_time, c.genes[i].end_time)
                /\ c.genes[i].duration_minutes =
                      session_lookup(sessions, c.genes[i].session_key).Duration_Minutes
                      => validate_locked_not_in_blocked_windows(
                             sessions, <<LockOf(c.genes[i])>>) = <<>>

\* an evaluated chromosome in which one session ends when another session of
\* the same room starts
C18_Witness ==
    /\ pc = "ops"
    /\ new_population[1].hard_violations # EmptyDict
    /\ new_population[1].hard_violations["room_overlap"] = 0
    /\ \E i, j \in DOMAIN new_population[1].genes :
          /\ Touching(new_population[1].genes[i], new_population[1].genes[j])
          /\ new_population[1].genes[i].room_id = new_population[1].genes[j].room_id

\* an evaluated chromosome in which a session ends when the blocked window
\* of its day starts
C18_WitnessBlockedWindow ==
    /\ pc = "ops"
    /\ new_population[1].hard_violations # EmptyDict
    /\ new_population[1].hard_violations["blocked_windows"] = 0
    /\ \E i \in DOMAIN new_population[1].genes :
          TouchesBlockedWindow(new_population[1].genes[i])

\* C19: at the best-ever update of a generation every chromosome of the new
\* population carries the fitness and the feasibility flag that the
\* evaluator computes from the genes it has then
C19_NewPopulationFreshlyEvaluated ==
    (pc \in {"next_generation", "done"} /\ new_population # <<>>)
        => \A i \in DOMAIN new_population :
              LET chromosome == new_population[i]
                  fresh == evaluate(chromosome, teacher_constraints)
              IN /\ chromosome.fitness = fresh.fitness
                 /\ chromosome.is_feasible = fresh.is_feasible

\* the teacher, room and section conflict lists of the genes are all empty
NoResourceConflicts(genes) ==
    \A resource_type \in {"teacher", "room", "section"} :
        find_resource_conflicts(genes, resource_type) = <<>>

\* C20: whatever repair does to the chromosome in hand, it returns success
\* exactly when the chromosome it leaves has no two genes, locked or not,
\* that share a teacher, a room or a section and overlap on one day
C20_RepairSucceedsIffNoConflict ==
    pc = "ops"
        => \A r \in repair(new_population[1]) :
              r[2] <=> NoResourceConflicts(r[1].genes)

RECURSIVE ConflictLoopStates(_, _, _, _)
\* every loop state the while loop of _repair_resource_conflicts passes
\* through from the states of the frontier on
ConflictLoopStates(seen, frontier, resource_type, max_local_attempts) ==
    IF frontier = {} THEN seen
    ELSE ConflictLoopStates(
             seen \cup frontier,
             UNION {ConflictStep(st, resource_type, max_local_attempts) :
                       st \in {st \in frontier : st.result = "run"}}
                 \ (seen \cup frontier),
             resource_type, max_local_attempts)

\* the values of stats.total_attempts a repair pass is entered with: none
\* used yet, and the last ones before MAX_TOTAL_ATTEMPTS
AttemptsBefore == {0, MAX_TOTAL_ATTEMPTS - 2, MAX_TOTAL_ATTEMPTS - 1, MAX_TOTAL_ATTEMPTS}

C22_RepairedGenesOutsideBlockedWindows ==
    pc = "ops"
        => \A r \in repair(new_population[1]) :
              r[2] => \A i \in DOMAIN r[1].genes :
                         ~r[1].genes[i].is_locked
                            => ~is_blocked(r[1].genes[i].day, r[1].genes[i].start_time,
                                           r[1].genes[i].end_time)

\* what a turn of the while loop can append for its child k: child k of a
\* crossover of two selected parents or of their copies, mutated, and then as
\* a repair that returned success left it or, for a repair that returned
\* failure, a copy of parent k
Appendable(pop, k) ==
    UNION {UNION {UNION {UNION {
        {IF r[2] THEN r[1] ELSE copy(IF k = 1 THEN parent1 ELSE parent2) :
            r \in repair(mutated)} :
        mutated \in mutate(children[k])} :
        children \in Children(parent1, parent2)} :
        parent2 \in tournament_selection(pop)} :
        parent1 \in tournament_selection(pop)}

\* there is a new population, and each one is as long as pop and made of
\* copies of the elite of pop, in their order, followed by what the turns of
\* the loop can append: for child 1, then for child 2 if there is room
FromEliteAndAppendable(pop, new_pops) ==
    LET elite == SubSeq(SortByFitness(pop), 1, elite_count(pop))
        Child(i) == ((i - Len(elite) - 1) % 2) + 1
        Allowed(first, second) ==
           \A i \in (Len(elite) + 1)..Len(pop) :
              {new_pop[i] : new_pop \in new_pops}
                  \subseteq (IF Child(i) = 1 THEN first ELSE second)
    IN /\ new_pops # {}
       /\ \A new_pop \in new_pops :
             /\ Len(new_pop) = Len(pop)
             /\ \A i \in DOMAIN elite : new_pop[i] = copy(elite[i])
       /\ Allowed(Appendable(pop, 1), Appendable(pop, 2))

\* the first population with its first chromosome once more: a population
\* of three, whose next generation has a second child in it
PopulationOfThree == population \o <<population[1]>>

\* C23: every chromosome of a new population is a copy of an elite, an
\* offspring that repair returned success for, or a copy of the parent of an
\* offspring that repair failed on, parent1 for the first child and parent2
\* for the second; no failure of repair stops the generation
C23_NewPopulationFromEliteRepairedOrParent ==
    /\ pc = "next_generation"
          => FromEliteAndAppendable(population, create_next_generation(population))
    /\ (pc = "next_generation" /\ generation = 0)
          => FromEliteAndAppendable(PopulationOfThree,
                                    create_next_generation(PopulationOfThree))

\* a new population holds the copy of a parent in the place of a child, and
\* some repair of that child fails and leaves other genes than the parent's
C23_Witness ==
    /\ pc = "evaluate"
    /\ \E i \in DOMAIN new_population :
          /\ i > elite_count(population)
          /\ \E parent1, parent2 \in tournament_selection(population) :
                \E children \in Children(parent1, parent2) :
                   \E mutated \in mutate(children[1]) :
                      \E r \in repair(mutated) :
                         /\ ~r[2]
                         /\ new_population[i] = copy(parent1)
                         /\ r[1].genes # parent1.genes

\* the population size of the configuration as it is shipped
default_population_size == 50

\* a population of n chromosomes: those of the state, as often as it takes
PopulationOf(n) == [i \in 1..n |-> population[((i - 1) % Len(population)) + 1]]

\* the smallest integer that is no less than num / den
Ceiling(num, den) == (num + den - 1) \div den

\* C24: a generation starts its new population with copies of exactly
\* ceil(elitism_rate * population size) chromosomes, at least one, and no
\* chromosome left out is fitter than one of them; checked for every
\* population size up to the default one
C24_EliteCountIsCeiling ==
    (pc = "next_generation" /\ generation = 0)
        => \A n \in 1..default_population_size :
              LET elite == SubSeq(SortByFitness(PopulationOf(n)), 1,
                              elite_count(PopulationOf(n)))
              IN /\ Len(elite) >= 1
                 /\ Len(elite) = Ceiling(n * elitism_rate_percent, 100)
                 /\ \A i \in DOMAIN elite : \A j \in 1..n :
                       FitnessOr0(PopulationOf(n)[j]) > FitnessOr0(elite[i])
                          => \E k \in DOMAIN elite : elite[k] = PopulationOf(n)[j]

\* C25: the crossover call of the engine chooses its operator by a draw, so
\* that it can select either one: whatever pair of children the uniform
\* crossover can make of two selected parents, and whatever pair the
\* day-based one can make, is a pair the call of the engine can return
C25_EngineCrossoverSelectsBothOperators ==
    pc = "next_generation"
        => \A parent1, parent2 \in tournament_selection(population) :
              /\ day_based_crossover(parent1, parent2) \subseteq Children(parent1, parent2)
              /\ uniform_crossover(parent1, parent2) \subseteq Children(parent1, parent2)

\* the session keys of a chromosome in the order of its genes
KeyOrder(chromosome) ==
    [i \in DOMAIN chromosome.genes |-> chromosome.genes[i].session_key]

\* C26: any two chromosomes that can be selected as parents list their genes
\* in the same order of session keys, and every child the uniform crossover
\* makes of them holds exactly one gene for each session
C26_ParentsShareGeneOrder ==
    pc = "next_generation"
        => \A parent1, parent2 \in tournament_selection(population) :
              /\ KeyOrder(parent1) = KeyOrder(parent2)
              /\ \A children \in uniform_crossover(parent1, parent2) :
                    \A k \in 1..2 : \A key \in SessionKeys :
                       Cardinality({i \in DOMAIN children[k].genes :
                                       children[k].genes[i].session_key = key}) = 1

\* C28: evaluating the chromosome in hand once more, its genes unchanged,
\* leaves the fitness, the feasibility, the hard counters, the soft scores
\* and the list conflict_details that the first evaluation left
C28_EvaluationIsIdempotent ==
    pc = "ops"
        => LET once == evaluate(new_population[1], teacher_constraints)
               twice == evaluate(once, teacher_constraints)
           IN /\ twice.genes = once.genes
              /\ twice.fitness = once.fitness
              /\ twice.is_feasible = once.is_feasible
              /\ twice.hard_violations = once.hard_violations
              /\ twice.soft_scores = once.soft_scores
              /\ twice.conflict_details = once.conflict_details

\* the chromosome carries a fitness or a flag that the evaluator does not
\* give for the genes it has now
CarriesStaleFitness(chromosome) ==
    /\ chromosome.fitness # NoFitness
    /\ \/ evaluate(chromosome, teacher_constraints).fitness # chromosome.fitness
       \/ evaluate(chromosome, teacher_constraints).is_feasible # chromosome.is_feasible

\* C29: from the first evaluation on, and so in what run returns, best_fitness
\* is the fitness the evaluator gives for the genes of the best chromosome and
\* the is_feasible of the best chromosome is the feasibility the evaluator
\* gives for them: no chromosome that carries a stale fitness is the best one
C29_BestFitnessIsOfItsGenes ==
    pc \in {"next_generation", "evaluate", "done"}
        => /\ best_fitness = evaluate(best_chromosome, teacher_constraints).fitness
           /\ best_fitness = FitnessOr0(best_chromosome)
           /\ RunResult.is_feasible
                 = evaluate(best_chromosome, teacher_constraints).is_feasible
           /\ ~CarriesStaleFitness(best_chromosome)

\* run returns a best chromosome that a generation has made, from a last
\* population that holds a chromosome with a stale fitness
C29_Witness ==
    /\ pc = "done"
    /\ best_fitness > best_fitness_history[1]
    /\ \E i \in DOMAIN new_population : CarriesStaleFitness(new_population[i])

\* C30: what run returns carries the diagnostics of the evaluator for the
\* best chromosome: a hard-violation map with an entry for each of the eleven
\* hard categories, on the chromosome and in the result, and soft scores that
\* sum to the best_fitness returned
C30_BestCarriesDiagnostics ==
    pc = "done"
        => /\ Cardinality(HardCategories) = 11
           /\ DOMAIN RunResult.hard_violations = HardCategories
           /\ DOMAIN RunResult.best_chromosome.hard_violations = HardCategories
           /\ SumDict(RunResult.best_chromosome.soft_scores) = RunResult.best_fitness

\* the chromosomes the engine holds while a generation is made: the current
\* population, which the parents are objects of, the new population as far as
\* it is filled, and the best chromosome
Held ==
    Range(population) \cup Range(new_population)
    \cup (IF pc = "heap_run" THEN {} ELSE {best_chromosome})

\* the children in hand
FrameChildren == IF frame = NoFrame THEN {} ELSE {frame.child1, frame.child2}

\* the Gene objects of a chromosome
GeneObjects(chromosome) ==
    {heap.lists[chromosome.genes][i] : i \in DOMAIN heap.lists[chromosome.genes]}

\* two chromosomes with one list of genes are one chromosome, and two with
\* two lists have no Gene object in common
NoSharedGenes ==
    \A c1, c2 \in Held \cup FrameChildren :
       IF c1.genes = c2.genes THEN c1 = c2
       ELSE GeneObjects(c1) \cap GeneObjects(c2) = {}

\* C27: the copies, the children of a crossover and the mutated chromosomes
\* share no Gene and no list of genes with a chromosome the engine holds, and
\* no step of a run, and so no mutation and no repair of an offspring in
\* place, changes a gene, lock fields included, of a chromosome the engine
\* holds: of the current population and so of the parents, of the new
\* population as far as it is filled, or of the best chromosome
C27_OffspringShareNoGenes ==
    /\ []NoSharedGenes
    /\ [][\A chromosome \in Held :
             GenesOf(heap', chromosome) = GenesOf(heap, chromosome)]_vars

\* a child that mutation or repair has changed is in the new population,
\* next to the copy of an elite, with genes that no chromosome of the current
\* population has
C27_Witness ==
    /\ pc = "heap_repair2"
    /\ new_population[Len(new_population)] = frame.child1
    /\ \A chromosome \in Range(population) :
          GenesOf(heap, frame.child1) # GenesOf(heap, chromosome)
    /\ \E chromosome \in Range(population) :
          GenesOf(heap, new_population[1]) = GenesOf(heap, chromosome)

\* C12: with a seed, a second run with the same inputs, population size and
\* generation limit, on a newly constructed engine or on the same engine,
\* returns the best chromosome and the best fitness of the first run
C12_SeededRunsAgree ==
    \A i, j \in DOMAIN run_results :
        /\ { <<g.session_key, g.day, g.start_time, g.room_id>> :
                g \in Range(run_results[i].best_chromosome.genes) }
           = { <<g.session_key, g.day, g.start_time, g.room_id>> :
                g \in Range(run_results[j].best_chromosome.genes) }
        /\ run_results[i].best_fitness = run_results[j].best_fitness

====
